---- MODULE Spec2Model ----
(***************************************************************************)
(* A model of the webui crate (src/src/lib.rs): the element registry       *)
(* (AppState.elements behind a std Mutex), the broadcast channel           *)
(* (AppState.update_tx), the typed event dispatch (handle_click,           *)
(* handle_input, handle_change) and the per-connection websocket() task    *)
(* pair.  Every lock acquisition, map access, channel operation and        *)
(* socket operation of the source is one step of the thread executing it.  *)
(***************************************************************************)
EXTENDS Integers, Sequences, FiniteSets, Bags, TLC

\* ------------------------------------------------------------------ bounds

\* Frames the clients send, all connections together.
MaxFrames == 3
\* API calls the application thread makes while the server is running.
MaxAppCalls == 3
\* Messages a receiver may leave unread before the channel overwrites the
\* oldest.  The source creates the channel with broadcast::channel(100); the
\* model keeps the mechanism and scales the number down.
Capacity == 2

\* Bits of an f64's significand.  An f64 has 53; the model keeps the rounding
\* and scales the width down.
MantissaBits == 6

\* ----------------------------------------------------------------- threads

\* One websocket() invocation per connected client.  The session's name also
\* names the thread running its recv_task (the only session code that takes
\* the registry lock); its send_task is tracked by sendpc.
Sessions == {"s1", "s2"}
\* The thread of the embedding application (main in the examples and tests).
App == "app"
Threads == Sessions \cup {App}
NoThread == "none"

\* ---------------------------------------------------------------- elements

\* Option<T>: None is the empty tuple, Some(x) the one-element tuple.
None == << >>
Some(x) == << x >>

\* A callback field that holds no closure.
NoHandler == "none"

Button(id, text, on_click) ==
    [kind |-> "button", id |-> id, text |-> text, on_click |-> on_click]
Text(id, text) ==
    [kind |-> "text", id |-> id, text |-> text]
Input(id, value, on_input) ==
    [kind |-> "input", id |-> id, value |-> value, on_input |-> on_input]
Checkbox(id, checked, on_change) ==
    [kind |-> "checkbox", id |-> id, checked |-> checked, on_change |-> on_change]
Slider(id, value, min, max, step, on_change) ==
    [kind |-> "slider", id |-> id, value |-> value, min |-> min, max |-> max,
     step |-> step, on_change |-> on_change]
Radio(id, name, value, checked, on_change) ==
    [kind |-> "radio", id |-> id, name |-> name, value |-> value,
     checked |-> checked, on_change |-> on_change]
NumberInput(id, value, min, max, step, on_change) ==
    [kind |-> "number", id |-> id, value |-> value, min |-> min, max |-> max,
     step |-> step, on_change |-> on_change]

\* serde_json::Value payloads of a change message, and the arguments a
\* callback receives.
JBool(b) == [t |-> "bool", b |-> b]
JNumber(n) == [t |-> "number", n |-> n]
JString(s) == [t |-> "string", s |-> s]
Unit == [t |-> "unit"]

\* Value::as_bool: Some only for a JSON boolean.
as_bool(value) == IF value.t = "bool" THEN Some(value.b) ELSE None
\* A coercion that would accept every payload (not the code's).
CoercesAnything(value) == Some(0)
\* The bits of the binary numeral of n >= 0.
RECURSIVE Bits(_)
Bits(n) == IF n < 2 THEN 1 ELSE 1 + Bits(n \div 2)

\* `n as f64` for an integer n: n itself when its numeral fits the
\* significand, else the nearest multiple of the unit in the last place, a
\* tie going to the even significand.
RECURSIVE ToF64(_)
ToF64(n) ==
    IF n < 0 THEN 0 - ToF64(0 - n)
    ELSE IF Bits(n) <= MantissaBits THEN n
    ELSE LET ulp == 2 ^ (Bits(n) - MantissaBits)
             q == n \div ulp
             r == n % ulp
         IN IF 2 * r > ulp \/ (2 * r = ulp /\ q % 2 = 1)
            THEN (q + 1) * ulp
            ELSE q * ulp

\* Value::as_f64: Some only for a JSON number; an integer is converted with
\* `as f64`.
as_f64(value) == IF value.t = "number" THEN Some(ToF64(value.n)) ELSE None

\* ClientMessage
Click(id) == [type |-> "click", id |-> id]
InputMsg(id, value) == [type |-> "input", id |-> id, value |-> value]
Change(id, value) == [type |-> "change", id |-> id, payload |-> value]
NoFrame == [type |-> "none"]

\* ServerMessage.  n is the serial number of the update_element call that
\* built the message (history only: it is not on the wire).
InitMsg(els) == [type |-> "init", elements |-> els]
UpdateMsg(id, element, n) == [type |-> "update", id |-> id, element |-> element, n |-> n]

\* ------------------------------------------------------------------ frames

\* A websocket frame as recv_task sees it: Message::Text with its text (the
\* JSON value it spells, or NotJson), or a frame of another kind.
JObject(fields) == [t |-> "object", fields |-> fields]
NotJson == [t |-> "invalid"]
TextFrame(json) == [text |-> TRUE, json |-> json]
BinaryFrame == [text |-> FALSE]

\* Field f of JSON object j is present and is a string.
StringField(j, f) == f \in DOMAIN j.fields /\ j.fields[f].t = "string"

\* A parser that would take every object with an id for a click (not the
\* code's).
FromStrIgnoresTag(json) ==
    IF json.t = "object" /\ StringField(json, "id")
    THEN Some(Click(json.fields["id"].s))
    ELSE None
\* serde_json::from_str::<ClientMessage>, lines 145-154: an object whose
\* "type" names a variant and which has every field of the variant with the
\* variant's type; fields the variant does not have are ignored.
from_str(json) ==
    IF json.t # "object" \/ ~StringField(json, "type") \/ ~StringField(json, "id")
    THEN None
    ELSE CASE json.fields["type"].s = "click" -> Some(Click(json.fields["id"].s))
           [] json.fields["type"].s = "input" ->
                IF StringField(json, "value")
                THEN Some(InputMsg(json.fields["id"].s, json.fields["value"].s))
                ELSE None
           [] json.fields["type"].s = "change" ->
                IF "value" \in DOMAIN json.fields
                THEN Some(Change(json.fields["id"].s, json.fields["value"]))
                ELSE None
           [] OTHER -> None

\* Lines 564-565: the message recv_task dispatches for a frame, if any.
Accepted(frame) == IF frame.text THEN from_str(frame.json) ELSE None

\* ---------------------------------------------------------------- registry

\* An insert that would keep the entry a key already has (not the code's).
InsertKeepsOld(m, k, e) ==
    IF k \in DOMAIN m THEN m ELSE [x \in DOMAIN m \cup {k} |-> IF x = k THEN e ELSE m[x]]
\* An insert that would carry the old entry's click handler over to the new
\* element (not HashMap's).
InsertKeepsHandler(m, k, e) ==
    [x \in DOMAIN m \cup {k} |->
        IF x # k THEN m[x]
        ELSE IF k \in DOMAIN m /\ m[k].kind = "button" /\ e.kind = "button"
             THEN [e EXCEPT !.on_click = m[k].on_click]
             ELSE e]
\* HashMap::insert: the entry of key k is created or replaced.
Insert(m, k, e) ==
    [x \in DOMAIN m \cup {k} |-> IF x = k THEN e ELSE m[x]]

\* HashMap::get
Get(m, k) == IF k \in DOMAIN m THEN Some(m[k]) ELSE None

\* The match of add_element: the key is the element's own id, whatever its kind.
ElementId(element) == element.id

EmptyMap == [x \in {} |-> None]

\* ----------------------------------------------------------- scoped handles

\* A scoped handle (state.scope("form"), scoped.rs 21-22) is the path of its
\* segments over the shared AppState; the root AppState has the empty path.
Root == << >>

\* A scope that would forget its parent's path (not the specified one).
ScopeReplaces(parent, segment) == << segment >>
\* scope(parent, segment): the parent's path with one more segment.
scope(parent, segment) == Append(parent, segment)

\* A rewriting that would leave the local id as it is (not the specified one).
QualifyKeepsLocal(path, id) == id
\* The fully-qualified identifier of a local id: the segments of the handle's
\* path and the local id, joined with "::".
RECURSIVE Qualify(_, _)
Qualify(path, id) ==
    IF path = << >> THEN id
    ELSE Head(path) \o "::" \o Qualify(Tail(path), id)

\* The element with its id field replaced.
WithId(element, id) == [element EXCEPT !.id = id]

\* A call on a scoped handle: the local id is rewritten, in the id argument
\* and in the element, and the call is the shared AppState's.  scope and local
\* are history: the handle and the id the caller used.
ScopedCall(op, handle, id, element) ==
    [op |-> op, id |-> Qualify(handle, id),
     element |-> WithId(element, Qualify(handle, id)),
     scope |-> handle, local |-> id]

\* -------------------------------------------------------------- callbacks

\* The closures the examples and tests store in callback fields.  Every one
\* is observed through calls/got (the Arc<Mutex<..>> the tests' closures
\* write to); Body is the AppState call the closure then makes, if any:
\*   "set_status" update_element("status", Text{..})        basic.rs 29-38
\*   "echo"       update_element("echo", Text{.. value})    basic.rs 71-80
\*   "add_status" add_element(Text{..})      a closure holding a clone of the
\*   "list"       get_all_elements()         AppState may call any public method
\*   "form_submit"  form_state.update_element("status", ..)    scoped.rs 30-37
\*   "modal_submit" modal_state.update_element("status", ..)   scoped.rs 59-66
\*   any other    records its argument and returns       lib.rs 808-810, 845-847
Handlers ==
    {"count", "recount", "set_status", "echo", "add_status", "list",
     "form_submit", "modal_submit",
     "on_input", "on_checkbox", "on_slider", "on_radio", "on_number"}
NoCall == [op |-> "none"]
Body(h, arg) ==
    CASE h = "set_status" ->
           [op |-> "update", id |-> "status", element |-> Text("status", "clicked")]
      [] h = "echo" ->
           [op |-> "update", id |-> "echo", element |-> Text("echo", arg.s)]
      [] h = "add_status" ->
           [op |-> "add", id |-> "status", element |-> Text("status", "added")]
      [] h = "list" -> [op |-> "get"]
      [] h = "form_submit" ->
           ScopedCall("update", scope(Root, "form"), "status",
                      Text("status", "Form submitted successfully!"))
      [] h = "modal_submit" ->
           ScopedCall("update", scope(Root, "modal"), "status",
                      Text("status", "Modal closed!"))
      [] OTHER -> NoCall

\* ------------------------------------------------------------------- state

VARIABLES
    elements,   \* AppState.elements: the HashMap behind the Mutex
    lock,       \* the thread holding the Mutex, or NoThread
    pc,         \* each thread's position
    call,       \* each thread's current AppState call: op, id, element
    vec,        \* get_all_elements' iteration: keys left to clone, clones made
    ev,         \* recv_task: the ClientMessage being dispatched
    hcall,      \* handle_*: the handler (and coerced argument) taken from the map
    running,    \* the callback a recv_task is executing, or NoHandler
    phase,      \* websocket(): "new", "connecting", "active" or "closed"
    sendpc,     \* send_task's position
    aborted,    \* recv_task.abort() was called
    rx,         \* update_rx of each session: live, queue (unread), lagged
    out,        \* send_task: the message received and not yet written
    client,     \* the frames written to each client's socket, in order
    calls,      \* how often each callback has been invoked
    got,        \* the argument of each callback's latest invocation
    nsent,      \* update_tx.send calls made so far
    frames,     \* frames the clients have sent so far
    appcalls,   \* history: the AppState calls the application thread has made
    inserted,   \* history: every key ever handed to HashMap::insert
    seen,       \* history: the ClientMessages received so far, as a bag
    since       \* history: nsent when each session subscribed

vars == << elements, lock, pc, call, vec, ev, hcall, running, phase, sendpc,
           aborted, rx, out, client, calls, got, nsent, frames, appcalls,
           inserted, seen, since >>

\* The variables of one session's tasks and socket.
sessionVars == << ev, hcall, running, phase, sendpc, aborted, out, client, frames, since >>
\* The variables the callbacks write.
callbackVars == << calls, got, seen >>

NoVec == [left |-> {}, out |-> EmptyBag]
NoHCall == [h |-> NoHandler, arg |-> Unit]
NoRx == [live |-> FALSE, queue |-> << >>, lagged |-> FALSE]
NoMsg == [type |-> "none"]

\* The state in which serving starts: the registry main() has filled, no
\* client connected yet.
InitWith(registry) ==
    /\ elements = registry
    /\ lock = NoThread
    /\ pc = [t \in Threads |-> IF t = App THEN "idle" ELSE "new"]
    /\ call = [t \in Threads |-> NoCall]
    /\ vec = [t \in Threads |-> NoVec]
    /\ ev = [s \in Sessions |-> NoFrame]
    /\ hcall = [s \in Sessions |-> NoHCall]
    /\ running = [s \in Sessions |-> NoHandler]
    /\ phase = [s \in Sessions |-> "new"]
    /\ sendpc = [s \in Sessions |-> "new"]
    /\ aborted = [s \in Sessions |-> FALSE]
    /\ rx = [s \in Sessions |-> NoRx]
    /\ out = [s \in Sessions |-> NoMsg]
    /\ client = [s \in Sessions |-> << >>]
    /\ calls = [h \in Handlers |-> 0]
    /\ got = [h \in Handlers |-> None]
    /\ nsent = 0
    /\ frames = 0
    /\ appcalls = << >>
    /\ inserted = DOMAIN registry
    /\ seen = EmptyBag
    /\ since = [s \in Sessions |-> 0]

\* ------------------------------------------------------------ the Mutex

\* A registry without mutual exclusion (not the code's).
UnguardedAccess(t) == TRUE
\* Mutex::lock: granted only while no thread holds the lock (std's Mutex is
\* not reentrant: a thread that already holds it blocks like any other).
CanLock(t) == lock = NoThread

\* Where a thread continues when its AppState call returns: the application
\* thread is idle again, websocket() goes on to send init, and a callback's
\* call returns into the callback, which then returns to recv_task's loop.
Return(t) ==
    IF t = App THEN "idle"
    ELSE IF phase[t] = "connecting" THEN "send_init"
    ELSE "recv"

\* The callback (if any) of thread t has returned.
Returned(t) ==
    IF t \in Sessions /\ phase[t] # "connecting"
    THEN [running EXCEPT ![t] = NoHandler]
    ELSE running

\* ------------------------------------------------------- AppState methods

\* add_element, lines 412-421: the key is taken from the element, then the
\* thread asks for the lock.
add_element_lock(t) ==
    /\ pc[t] = "add_lock"
    /\ CanLock(t)
    /\ lock' = t
    /\ pc' = [pc EXCEPT ![t] = "add_insert"]
    /\ UNCHANGED << elements, call, vec, sessionVars, rx, callbackVars, nsent,
                    appcalls, inserted >>

\* An add_element that would publish the element like update_element does
\* (not the code's).
AddInsertPublishes(t) ==
    /\ pc[t] = "add_insert"
    /\ lock = t
    /\ elements' = Insert(elements, call[t].id, call[t].element)
    /\ inserted' = inserted \cup {call[t].id}
    /\ rx' = [s \in Sessions |->
                IF rx[s].live
                THEN [rx[s] EXCEPT !.queue =
                        Append(rx[s].queue,
                               UpdateMsg(call[t].id, call[t].element, nsent + 1))]
                ELSE rx[s]]
    /\ nsent' = nsent + 1
    /\ lock' = NoThread
    /\ pc' = [pc EXCEPT ![t] = Return(t)]
    /\ call' = [call EXCEPT ![t] = NoCall]
    /\ running' = Returned(t)
    /\ UNCHANGED << vec, ev, hcall, phase, sendpc, aborted, out, client, frames, since,
                    callbackVars, appcalls >>
\* add_element, line 421: insert under the lock; the guard is a temporary of
\* the statement, so the lock is released as the statement ends.
add_element_insert(t) ==
    /\ pc[t] = "add_insert"
    /\ lock = t
    /\ elements' = Insert(elements, call[t].id, call[t].element)
    /\ inserted' = inserted \cup {call[t].id}
    /\ lock' = NoThread
    /\ pc' = [pc EXCEPT ![t] = Return(t)]
    /\ call' = [call EXCEPT ![t] = NoCall]
    /\ running' = Returned(t)
    /\ UNCHANGED << vec, ev, hcall, phase, sendpc, aborted, out, client, frames, since,
                    rx, callbackVars, nsent, appcalls >>

\* update_element, line 439: ask for the lock.
update_element_lock(t) ==
    /\ pc[t] = "update_lock"
    /\ CanLock(t)
    /\ lock' = t
    /\ pc' = [pc EXCEPT ![t] = "update_insert"]
    /\ UNCHANGED << elements, call, vec, sessionVars, rx, callbackVars, nsent,
                    appcalls, inserted >>

\* update_element, line 439: insert a clone under the caller's id; the lock
\* is released as the statement ends, before the send.
update_element_insert(t) ==
    /\ pc[t] = "update_insert"
    /\ lock = t
    /\ elements' = Insert(elements, call[t].id, call[t].element)
    /\ inserted' = inserted \cup {call[t].id}
    /\ lock' = NoThread
    /\ pc' = [pc EXCEPT ![t] = "update_send"]
    /\ UNCHANGED << call, vec, sessionVars, rx, callbackVars, nsent, appcalls >>

\* A receiver that would hand out the newest value first (not tokio's).
DeliverNewestFirst(r, m) ==
    IF ~r.live THEN r
    ELSE IF Len(r.queue) < Capacity
         THEN [r EXCEPT !.queue = << m >> \o r.queue]
         ELSE [r EXCEPT !.queue = << m >> \o SubSeq(r.queue, 1, Capacity - 1),
                        !.lagged = TRUE]
\* A channel that would keep every unread value (not the code's).
DeliverKeepsAll(r, m) ==
    IF ~r.live THEN r ELSE [r EXCEPT !.queue = Append(r.queue, m)]
\* A channel that would drop the new value when a receiver is full (not the
\* code's).
DeliverRejectsWhenFull(r, m) ==
    IF ~r.live \/ Len(r.queue) >= Capacity THEN r
    ELSE [r EXCEPT !.queue = Append(r.queue, m)]
\* broadcast::Sender::send: with no receiver the value is returned in an Err
\* and nothing is stored; otherwise every live receiver gets the value, and a
\* receiver that already has Capacity unread values loses its oldest one.
Deliver(r, m) ==
    IF ~r.live THEN r
    ELSE IF Len(r.queue) < Capacity
         THEN [r EXCEPT !.queue = Append(r.queue, m)]
         ELSE [r EXCEPT !.queue = Append(Tail(r.queue), m), !.lagged = TRUE]
\* A channel that would refuse a value once a receiver of a closed session
\* has been dropped (not tokio's).
SendFailsAfterClose(m) ==
    IF \E s \in Sessions : phase[s] = "closed"
    THEN rx
    ELSE [s \in Sessions |-> Deliver(rx[s], m)]
Send(m) == [s \in Sessions |-> Deliver(rx[s], m)]

\* update_element, lines 440-443: publish Update{id, element}; the result of
\* send is discarded (let _ =).
update_element_send(t) ==
    /\ pc[t] = "update_send"
    /\ rx' = Send(UpdateMsg(call[t].id, call[t].element, nsent + 1))
    /\ nsent' = nsent + 1
    /\ pc' = [pc EXCEPT ![t] = Return(t)]
    /\ call' = [call EXCEPT ![t] = NoCall]
    /\ running' = Returned(t)
    /\ UNCHANGED << elements, lock, vec, ev, hcall, phase, sendpc, aborted, out,
                    client, frames, since, callbackVars, appcalls, inserted >>

\* get_all_elements, line 450: ask for the lock.
get_all_elements_lock(t) ==
    /\ pc[t] = "get_lock"
    /\ CanLock(t)
    /\ lock' = t
    /\ vec' = [vec EXCEPT ![t] = [left |-> DOMAIN elements, out |-> EmptyBag]]
    /\ pc' = [pc EXCEPT ![t] = "get_clone"]
    /\ UNCHANGED << elements, call, sessionVars, rx, callbackVars, nsent,
                    appcalls, inserted >>

\* get_all_elements, line 450: values().cloned() yields one more value, in the
\* map's (arbitrary) iteration order.
get_all_elements_clone(t) ==
    /\ pc[t] = "get_clone"
    /\ \E k \in vec[t].left \cap DOMAIN elements :
          vec' = [vec EXCEPT ![t] = [left |-> vec[t].left \ {k},
                                     out |-> vec[t].out (+) SetToBag({elements[k]})]]
    /\ UNCHANGED << elements, lock, pc, call, sessionVars, rx, callbackVars,
                    nsent, appcalls, inserted >>

\* get_all_elements, line 450: collect() is complete; the guard is dropped and
\* the Vec returned.  websocket() keeps it for the init message.
get_all_elements_return(t) ==
    /\ pc[t] = "get_clone"
    /\ vec[t].left = {}
    /\ lock = t
    /\ lock' = NoThread
    /\ pc' = [pc EXCEPT ![t] = Return(t)]
    /\ call' = [call EXCEPT ![t] = NoCall]
    /\ running' = Returned(t)
    /\ vec' = IF Return(t) = "send_init" THEN vec ELSE [vec EXCEPT ![t] = NoVec]
    /\ UNCHANGED << elements, ev, hcall, phase, sendpc, aborted, out, client,
                    frames, since, rx, callbackVars, nsent, appcalls, inserted >>

\* ------------------------------------------------ the application thread

\* A thread starts an AppState call.
Enter(t, c) ==
    /\ call' = [call EXCEPT ![t] = c]
    /\ pc' = [pc EXCEPT ![t] = CASE c.op = "add" -> "add_lock"
                                 [] c.op = "update" -> "update_lock"
                                 [] c.op = "get" -> "get_lock"]

app_add_element(element) ==
    /\ pc[App] = "idle"
    /\ Len(appcalls) < MaxAppCalls
    /\ appcalls' = Append(appcalls, [op |-> "add", id |-> ElementId(element), element |-> element])
    /\ Enter(App, [op |-> "add", id |-> ElementId(element), element |-> element])
    /\ UNCHANGED << elements, lock, vec, sessionVars, rx, callbackVars, nsent,
                    inserted >>

app_update_element(id, element) ==
    /\ pc[App] = "idle"
    /\ Len(appcalls) < MaxAppCalls
    /\ appcalls' = Append(appcalls, [op |-> "update", id |-> id, element |-> element])
    /\ Enter(App, [op |-> "update", id |-> id, element |-> element])
    /\ UNCHANGED << elements, lock, vec, sessionVars, rx, callbackVars, nsent,
                    inserted >>

app_get_all_elements ==
    /\ pc[App] = "idle"
    /\ Len(appcalls) < MaxAppCalls
    /\ appcalls' = Append(appcalls, [op |-> "get"])
    /\ Enter(App, [op |-> "get"])
    /\ UNCHANGED << elements, lock, vec, sessionVars, rx, callbackVars, nsent,
                    inserted >>

\* add_element on a scoped handle.
scoped_add_element(handle, element) ==
    /\ pc[App] = "idle"
    /\ Len(appcalls) < MaxAppCalls
    /\ appcalls' = Append(appcalls, ScopedCall("add", handle, ElementId(element), element))
    /\ Enter(App, ScopedCall("add", handle, ElementId(element), element))
    /\ UNCHANGED << elements, lock, vec, sessionVars, rx, callbackVars, nsent,
                    inserted >>

\* update_element on a scoped handle.
scoped_update_element(handle, id, element) ==
    /\ pc[App] = "idle"
    /\ Len(appcalls) < MaxAppCalls
    /\ appcalls' = Append(appcalls, ScopedCall("update", handle, id, element))
    /\ Enter(App, ScopedCall("update", handle, id, element))
    /\ UNCHANGED << elements, lock, vec, sessionVars, rx, callbackVars, nsent,
                    inserted >>

\* ------------------------------------------------------------ websocket()

\* on_upgrade hands a new socket to websocket(), whose first statement with
\* an effect is state.get_all_elements() (line 540).
ws_connect(s) ==
    /\ pc[s] = "new"
    /\ phase' = [phase EXCEPT ![s] = "connecting"]
    /\ pc' = [pc EXCEPT ![s] = "get_lock"]
    /\ call' = [call EXCEPT ![s] = [op |-> "get"]]
    /\ UNCHANGED << elements, lock, vec, ev, hcall, running, sendpc, aborted,
                    out, client, frames, since, rx, callbackVars, nsent, appcalls,
                    inserted >>

\* A websocket() that would go on to subscribe without writing init (not the
\* code's).
InitNotWritten(s) ==
    /\ pc[s] = "send_init"
    /\ vec' = [vec EXCEPT ![s] = NoVec]
    /\ pc' = [pc EXCEPT ![s] = "subscribe"]
    /\ UNCHANGED << elements, lock, call, ev, hcall, running, phase, sendpc,
                    aborted, out, client, frames, since, rx, callbackVars, nsent,
                    appcalls, inserted >>
\* Lines 539-543: the init message is written to the socket.
ws_send_init(s) ==
    /\ pc[s] = "send_init"
    /\ client' = [client EXCEPT ![s] = Append(client[s], InitMsg(vec[s].out))]
    /\ vec' = [vec EXCEPT ![s] = NoVec]
    /\ pc' = [pc EXCEPT ![s] = "subscribe"]
    /\ UNCHANGED << elements, lock, call, ev, hcall, running, phase, sendpc,
                    aborted, out, frames, since, rx, callbackVars, nsent, appcalls,
                    inserted >>

\* Lines 543-545: the write fails and websocket() returns.
ws_send_init_fails(s) ==
    /\ pc[s] = "send_init"
    /\ vec' = [vec EXCEPT ![s] = NoVec]
    /\ pc' = [pc EXCEPT ![s] = "closed"]
    /\ phase' = [phase EXCEPT ![s] = "closed"]
    /\ UNCHANGED << elements, lock, call, ev, hcall, running, sendpc, aborted,
                    out, client, frames, since, rx, callbackVars, nsent, appcalls,
                    inserted >>

\* Lines 548-579: update_tx.subscribe() creates a receiver that sees the
\* values sent from now on; both tasks are spawned and websocket() waits in
\* select!.
ws_subscribe(s) ==
    /\ pc[s] = "subscribe"
    /\ rx' = [rx EXCEPT ![s] = [live |-> TRUE, queue |-> << >>, lagged |-> FALSE]]
    /\ sendpc' = [sendpc EXCEPT ![s] = "recv"]
    /\ pc' = [pc EXCEPT ![s] = "recv"]
    /\ phase' = [phase EXCEPT ![s] = "active"]
    /\ since' = [since EXCEPT ![s] = nsent]
    /\ UNCHANGED << elements, lock, call, vec, ev, hcall, running, aborted, out,
                    client, frames, callbackVars, nsent, appcalls, inserted >>

\* ---------------------------------------------------------------- send_task

\* Line 552: update_rx.recv() returns the oldest unread value.
send_task_recv(s) ==
    /\ sendpc[s] = "recv"
    /\ rx[s].live /\ ~rx[s].lagged /\ rx[s].queue # << >>
    /\ out' = [out EXCEPT ![s] = Head(rx[s].queue)]
    /\ rx' = [rx EXCEPT ![s].queue = Tail(rx[s].queue)]
    /\ sendpc' = [sendpc EXCEPT ![s] = "send"]
    /\ UNCHANGED << elements, lock, pc, call, vec, ev, hcall, running, phase,
                    aborted, client, frames, since, callbackVars, nsent, appcalls,
                    inserted >>

\* Line 552: update_rx.recv() returns Err(Lagged); `while let Ok(..)` ends the
\* loop and the task, and the receiver is dropped with the task.
send_task_lagged(s) ==
    /\ sendpc[s] = "recv"
    /\ rx[s].live /\ rx[s].lagged
    /\ rx' = [rx EXCEPT ![s] = NoRx]
    /\ sendpc' = [sendpc EXCEPT ![s] = "done"]
    /\ UNCHANGED << elements, lock, pc, call, vec, ev, hcall, running, phase,
                    aborted, out, client, frames, since, callbackVars, nsent, appcalls,
                    inserted >>

\* Lines 553-554: the update is serialized and written to the socket.
send_task_write(s) ==
    /\ sendpc[s] = "send"
    /\ client' = [client EXCEPT ![s] = Append(client[s], out[s])]
    /\ out' = [out EXCEPT ![s] = NoMsg]
    /\ sendpc' = [sendpc EXCEPT ![s] = "recv"]
    /\ UNCHANGED << elements, lock, pc, call, vec, ev, hcall, running, phase,
                    aborted, rx, frames, since, callbackVars, nsent, appcalls, inserted >>

\* Lines 554-556: the write fails; break ends the task.
send_task_write_fails(s) ==
    /\ sendpc[s] = "send"
    /\ out' = [out EXCEPT ![s] = NoMsg]
    /\ rx' = [rx EXCEPT ![s] = NoRx]
    /\ sendpc' = [sendpc EXCEPT ![s] = "done"]
    /\ UNCHANGED << elements, lock, pc, call, vec, ev, hcall, running, phase,
                    aborted, client, frames, since, callbackVars, nsent, appcalls,
                    inserted >>

\* ---------------------------------------------------------------- dispatch

\* A lookup that would ignore the id and take any Button's handler (not the
\* code's).
ClickAnyButton(m, id) ==
    IF \E k \in DOMAIN m : m[k].kind = "button" /\ m[k].on_click # NoHandler
    THEN [h |-> m[CHOOSE k \in DOMAIN m :
                     m[k].kind = "button" /\ m[k].on_click # NoHandler].on_click,
          arg |-> Unit]
    ELSE NoHCall
\* handle_click, lines 456-460: Some(handler) only for a Button stored under
\* the id whose on_click is Some.
click_handler(m, id) ==
    IF id \in DOMAIN m /\ m[id].kind = "button" /\ m[id].on_click # NoHandler
    THEN [h |-> m[id].on_click, arg |-> Unit]
    ELSE NoHCall

\* A lookup that would call the handler with an empty string (not the
\* code's).
InputHandlerDropsValue(m, id, value) ==
    IF id \in DOMAIN m /\ m[id].kind = "input" /\ m[id].on_input # NoHandler
    THEN [h |-> m[id].on_input, arg |-> JString("")]
    ELSE NoHCall
\* handle_input, lines 470-474: Some(handler) only for an Input whose on_input
\* is Some; the handler is later called with the message's value.
input_handler(m, id, value) ==
    IF id \in DOMAIN m /\ m[id].kind = "input" /\ m[id].on_input # NoHandler
    THEN [h |-> m[id].on_input, arg |-> JString(value)]
    ELSE NoHCall

\* A match that would coerce every kind's payload with as_bool (not the
\* code's).
ChangeCoercesBool(m, id, value) ==
    IF id \in DOMAIN m
       /\ m[id].kind \in {"checkbox", "radio", "slider", "number"}
       /\ m[id].on_change # NoHandler
       /\ as_bool(value) # None
    THEN [h |-> m[id].on_change, arg |-> JBool(as_bool(value)[1])]
    ELSE NoHCall
\* handle_change, lines 489-507: the match on the element's kind; the payload
\* is coerced with as_bool for Checkbox and Radio and with as_f64 for Slider
\* and NumberInput, and a payload that does not coerce gives None.
change_handler_call(m, id, value) ==
    IF id \notin DOMAIN m THEN NoHCall
    ELSE IF m[id].kind \in {"checkbox", "radio"} /\ m[id].on_change # NoHandler
    THEN IF as_bool(value) # None
         THEN [h |-> m[id].on_change, arg |-> JBool(as_bool(value)[1])]
         ELSE NoHCall
    ELSE IF m[id].kind \in {"slider", "number"} /\ m[id].on_change # NoHandler
    THEN IF as_f64(value) # None
         THEN [h |-> m[id].on_change, arg |-> JNumber(as_f64(value)[1])]
         ELSE NoHCall
    ELSE NoHCall

\* A dispatch that would keep the guard while the handler runs (not the
\* code's).
HeldIntoCall(t) == t
\* The first block of each handle_* ends (lines 461, 475, 508): the guard
\* `elements` goes out of scope, so the Mutex is free before the handler runs.
guard_dropped(t) == NoThread

\* Lines 455, 469, 488: self.elements.lock().
dispatch_lock(s, at, next) ==
    /\ pc[s] = at
    /\ CanLock(s)
    /\ lock' = s
    /\ pc' = [pc EXCEPT ![s] = next]
    /\ UNCHANGED << elements, call, vec, sessionVars, rx, callbackVars, nsent,
                    appcalls, inserted >>

\* A lookup that would also store the event's value in the target element,
\* as a two-way binding would (not the code's).
LookupStoresValue(s, at, found) ==
    /\ pc[s] = at
    /\ lock = s
    /\ hcall' = [hcall EXCEPT ![s] = found]
    /\ lock' = guard_dropped(s)
    /\ pc' = [pc EXCEPT ![s] = IF found.h # NoHandler THEN "invoke" ELSE "recv"]
    /\ ev' = [ev EXCEPT ![s] = NoFrame]
    /\ elements' =
          IF found.h = NoHandler \/ found.arg = Unit THEN elements
          ELSE [elements EXCEPT ![ev[s].id] =
                  CASE found.arg.t = "bool" -> [@ EXCEPT !.checked = found.arg.b]
                    [] found.arg.t = "number" -> [@ EXCEPT !.value = found.arg.n]
                    [] found.arg.t = "string" -> [@ EXCEPT !.value = found.arg.s]]
    /\ UNCHANGED << call, vec, running, phase, sendpc, aborted, out,
                    client, frames, since, rx, callbackVars, nsent, appcalls, inserted >>
\* The lookup under the lock; found is the handler call taken from the map.
dispatch_lookup(s, at, found) ==
    /\ pc[s] = at
    /\ lock = s
    /\ hcall' = [hcall EXCEPT ![s] = found]
    /\ lock' = guard_dropped(s)
    /\ pc' = [pc EXCEPT ![s] = IF found.h # NoHandler THEN "invoke" ELSE "recv"]
    /\ ev' = [ev EXCEPT ![s] = NoFrame]
    /\ UNCHANGED << elements, call, vec, running, phase, sendpc, aborted, out,
                    client, frames, since, rx, callbackVars, nsent, appcalls, inserted >>

handle_click_lock(s) == dispatch_lock(s, "click_lock", "click_lookup")
handle_click_lookup(s) ==
    dispatch_lookup(s, "click_lookup", click_handler(elements, ev[s].id))

handle_input_lock(s) == dispatch_lock(s, "input_lock", "input_lookup")
handle_input_lookup(s) ==
    dispatch_lookup(s, "input_lookup", input_handler(elements, ev[s].id, ev[s].value))

handle_change_lock(s) == dispatch_lock(s, "change_lock", "change_lookup")
handle_change_lookup(s) ==
    dispatch_lookup(s, "change_lookup",
                    change_handler_call(elements, ev[s].id, ev[s].payload))

\* Lines 462-464, 476-478, 510-515: the handler is called.  It records the
\* call; a handler that calls back into AppState starts that call on this
\* thread, any other returns at once to recv_task's loop.
invoke(s) ==
    /\ pc[s] = "invoke"
    /\ LET h == hcall[s].h
       IN /\ calls' = [calls EXCEPT ![h] = calls[h] + 1]
          /\ got' = [got EXCEPT ![h] = Some(hcall[s].arg)]
          /\ IF Body(h, hcall[s].arg) = NoCall
             THEN /\ pc' = [pc EXCEPT ![s] = "recv"]
                  /\ UNCHANGED << call, running >>
             ELSE /\ Enter(s, Body(h, hcall[s].arg))
                  /\ running' = [running EXCEPT ![s] = h]
    /\ hcall' = [hcall EXCEPT ![s] = NoHCall]
    /\ UNCHANGED << elements, lock, vec, ev, phase, sendpc, aborted, out, client,
                    frames, since, rx, nsent, appcalls, inserted, seen >>

\* ---------------------------------------------------------------- recv_task

\* A recv_task that would take the next frame while the handler of the last
\* one is still inside its update_element call (not the code's).
FrameDuringHandler(s, msg) ==
    /\ pc[s] \in {"recv", "update_lock"}
    /\ ~aborted[s]
    /\ frames < MaxFrames
    /\ frames' = frames + 1
    /\ ev' = [ev EXCEPT ![s] = msg]
    /\ seen' = seen (+) SetToBag({msg})
    /\ pc' = [pc EXCEPT ![s] = CASE msg.type = "click" -> "click_lock"
                                 [] msg.type = "input" -> "input_lock"
                                 [] msg.type = "change" -> "change_lock"]
    /\ UNCHANGED << elements, lock, call, vec, hcall, running, phase, sendpc,
                    aborted, out, client, rx, calls, got, nsent, appcalls,
                    inserted, since >>
\* Lines 563-576: receiver.next() yields a text frame that parses as a
\* ClientMessage; the match calls the handle_* of its type.
recv_task_frame(s, msg) ==
    /\ pc[s] = "recv"
    /\ ~aborted[s]
    /\ frames < MaxFrames
    /\ frames' = frames + 1
    /\ ev' = [ev EXCEPT ![s] = msg]
    /\ seen' = seen (+) SetToBag({msg})
    /\ pc' = [pc EXCEPT ![s] = CASE msg.type = "click" -> "click_lock"
                                 [] msg.type = "input" -> "input_lock"
                                 [] msg.type = "change" -> "change_lock"]
    /\ UNCHANGED << elements, lock, call, vec, hcall, running, phase, sendpc,
                    aborted, out, client, rx, calls, got, nsent, appcalls,
                    inserted, since >>

\* Lines 564-565: a frame that is not text, or whose text is no ClientMessage,
\* fails the `if let` chain; the loop goes on to the next frame.
recv_task_skip(s) ==
    /\ pc[s] = "recv"
    /\ ~aborted[s]
    /\ frames < MaxFrames
    /\ frames' = frames + 1
    /\ UNCHANGED << elements, lock, pc, call, vec, ev, hcall, running, phase,
                    sendpc, aborted, out, client, rx, callbackVars, nsent,
                    appcalls, inserted, since >>

\* Lines 563-577: one turn of recv_task's loop for a frame from the socket.
recv_task_next(s, frame) ==
    IF Accepted(frame) = None
    THEN recv_task_skip(s)
    ELSE recv_task_frame(s, Accepted(frame)[1])

\* Line 563: receiver.next() yields None or Some(Err): the loop and the task
\* end.
recv_task_end(s) ==
    /\ pc[s] = "recv"
    /\ ~aborted[s]
    /\ pc' = [pc EXCEPT ![s] = "done"]
    /\ UNCHANGED << elements, lock, call, vec, sessionVars, rx, callbackVars,
                    nsent, appcalls, inserted >>

\* An abort that would stop recv_task between two statements of a handler
\* (not tokio's).
CancelledInsideHandler(s) ==
    /\ pc[s] \in {"recv", "update_lock", "update_send"}
    /\ aborted[s]
    /\ pc' = [pc EXCEPT ![s] = "cancelled"]
    /\ UNCHANGED << elements, lock, call, vec, sessionVars, rx, callbackVars,
                    nsent, appcalls, inserted >>
\* An aborted task is dropped at its next await: recv_task's only await is
\* receiver.next() (the handle_* calls and the callbacks are synchronous).
recv_task_cancelled(s) ==
    /\ pc[s] = "recv"
    /\ aborted[s]
    /\ pc' = [pc EXCEPT ![s] = "cancelled"]
    /\ UNCHANGED << elements, lock, call, vec, sessionVars, rx, callbackVars,
                    nsent, appcalls, inserted >>

\* A websocket() that would return when a task finishes without aborting the
\* other one (not the code's).
SelectWithoutAbort(s) ==
    /\ phase[s] = "active"
    /\ sendpc[s] = "done" \/ pc[s] = "done"
    /\ phase' = [phase EXCEPT ![s] = "closed"]
    /\ UNCHANGED << elements, lock, pc, call, vec, ev, hcall, running, sendpc,
                    aborted, rx, out, client, frames, since, callbackVars, nsent,
                    appcalls, inserted >>
\* Lines 582-585: select! sees a finished task and aborts the other one;
\* websocket() returns.  JoinHandle::abort only schedules the cancellation:
\* it returns before the task, its receiver and its socket half are dropped.
\* An abort of a task that has finished does nothing.
ws_select(s) ==
    /\ phase[s] = "active"
    /\ \/ /\ sendpc[s] = "done"
          /\ aborted' = [aborted EXCEPT ![s] = pc[s] # "done"]
          /\ UNCHANGED sendpc
       \/ /\ pc[s] = "done"
          /\ sendpc' = [sendpc EXCEPT ![s] =
                          CASE sendpc[s] = "done" -> "done"
                            [] sendpc[s] = "send" -> "send_aborted"
                            [] OTHER -> "recv_aborted"]
          /\ UNCHANGED aborted
    /\ phase' = [phase EXCEPT ![s] = "closed"]
    /\ UNCHANGED << elements, lock, pc, call, vec, ev, hcall, running, client,
                    rx, out, frames, since, callbackVars, nsent, appcalls,
                    inserted >>

\* A cancellation that would end the task and leave its receiver subscribed
\* (not tokio's).
CancelKeepsReceiver(s) ==
    /\ sendpc[s] \in {"recv_aborted", "send_aborted"}
    /\ sendpc' = [sendpc EXCEPT ![s] = "cancelled"]
    /\ out' = [out EXCEPT ![s] = NoMsg]
    /\ UNCHANGED << elements, lock, pc, call, vec, ev, hcall, running, phase,
                    aborted, client, rx, frames, since, callbackVars, nsent,
                    appcalls, inserted >>
\* The runtime drops an aborted send_task the next time it schedules it:
\* update_rx and the socket's write half go with it.
send_task_cancelled(s) ==
    /\ sendpc[s] \in {"recv_aborted", "send_aborted"}
    /\ sendpc' = [sendpc EXCEPT ![s] = "cancelled"]
    /\ rx' = [rx EXCEPT ![s] = NoRx]
    /\ out' = [out EXCEPT ![s] = NoMsg]
    /\ UNCHANGED << elements, lock, pc, call, vec, ev, hcall, running, phase,
                    aborted, client, frames, since, callbackVars, nsent, appcalls,
                    inserted >>

\* Lines 553-554 in a send_task that was being polled on another worker when
\* abort() was called: the poll goes on to its next await, so the message it
\* had taken from update_rx is still written.
send_task_write_aborted(s) ==
    /\ sendpc[s] = "send_aborted"
    /\ client' = [client EXCEPT ![s] = Append(client[s], out[s])]
    /\ out' = [out EXCEPT ![s] = NoMsg]
    /\ sendpc' = [sendpc EXCEPT ![s] = "recv_aborted"]
    /\ UNCHANGED << elements, lock, pc, call, vec, ev, hcall, running, phase,
                    aborted, rx, frames, since, callbackVars, nsent, appcalls, inserted >>

\* ------------------------------------------------------------ start_server

Ok(v) == [ok |-> TRUE, v |-> v]
Err(e) == [ok |-> FALSE, e |-> e]

\* A socket address as text: an ip and a port, or text that is neither.
SocketAddr(ip, port) == [ip |-> ip, port |-> port]
Unparsable == [text |-> "nowhere"]

\* A bind that would hand out a listener whatever the address (not the
\* code's).
BindAlwaysOk(addr, in_use) == Ok(addr)
\* Line 731, TcpListener::bind(addr): the text must resolve to a socket
\* address and the port must be free; in_use is the set of ports taken at the
\* moment of the call.
bind(addr, in_use) ==
    IF "port" \notin DOMAIN addr THEN Err("InvalidInput")
    ELSE IF addr.port \in in_use THEN Err("AddrInUse")
    ELSE Ok(addr)

\* Lines 723-729: main() calls start_server; the RouterConfig and the Router
\* are built, which cannot fail.
start_server_config(addr, in_use) ==
    /\ pc[App] = "idle"
    /\ call' = [call EXCEPT ![App] =
                  [op |-> "start_server", addr |-> addr, in_use |-> in_use]]
    /\ pc' = [pc EXCEPT ![App] = "bind"]
    /\ UNCHANGED << elements, lock, vec, sessionVars, rx, callbackVars, nsent,
                    appcalls, inserted >>

\* Lines 731-734: `?` returns the error of bind to the caller; with a
\* listener, axum::serve starts accepting connections.
start_server_bind ==
    /\ pc[App] = "bind"
    /\ LET listener == bind(call[App].addr, call[App].in_use)
       IN IF listener.ok
          THEN /\ pc' = [pc EXCEPT ![App] = "serve"]
               /\ UNCHANGED call
          ELSE /\ pc' = [pc EXCEPT ![App] = "returned"]
               /\ call' = [call EXCEPT ![App] =
                             [op |-> "start_server", addr |-> call[App].addr,
                              in_use |-> call[App].in_use, result |-> listener]]
    /\ UNCHANGED << elements, lock, vec, sessionVars, rx, callbackVars, nsent,
                    appcalls, inserted >>

\* Line 734 and lines 520-530: axum::serve accepts a connection and the
\* upgrade runs websocket() for it.
serve_accept(s) ==
    /\ pc[App] = "serve"
    /\ ws_connect(s)

\* ----------------------------------------------------------- specification

\* The registry after main() has called add_element for each element in turn.
RECURSIVE AddAll(_, _)
AddAll(m, els) ==
    IF els = << >> THEN m
    ELSE AddAll(Insert(m, ElementId(Head(els)), Head(els)), Tail(els))

\* The steps of the AppState methods, whoever runs them.
add_element(t) ==
    \/ add_element_lock(t)
    \/ add_element_insert(t)

update_element(t) ==
    \/ update_element_lock(t)
    \/ update_element_insert(t)
    \/ update_element_send(t)

get_all_elements(t) ==
    \/ get_all_elements_lock(t)
    \/ get_all_elements_clone(t)
    \/ get_all_elements_return(t)

\* websocket() and its two tasks, failures of the socket included.
SessionStep(s) ==
    \/ ws_connect(s)
    \/ ws_send_init(s)
    \/ ws_send_init_fails(s)
    \/ ws_subscribe(s)
    \/ send_task_recv(s)
    \/ send_task_lagged(s)
    \/ send_task_write(s)
    \/ send_task_write_fails(s)
    \/ recv_task_skip(s)
    \/ recv_task_end(s)
    \/ recv_task_cancelled(s)
    \/ ws_select(s)
    \/ send_task_cancelled(s)
    \/ send_task_write_aborted(s)
    \/ invoke(s)

\* Spec: examples/basic.rs serving two clients that click.
BasicElements ==
    << Button("btn1", "Click Me!", "set_status"), Text("status", "Ready") >>
BasicFrames == { Click("btn1"), Click("bx") }

Init == InitWith(AddAll(EmptyMap, BasicElements))

Next ==
    \/ \E s \in Sessions : update_element(s) \/ get_all_elements(s)
    \/ \E s \in Sessions : SessionStep(s)
    \/ \E s \in Sessions : handle_click_lock(s) \/ handle_click_lookup(s)
    \/ \E s \in Sessions, msg \in BasicFrames : recv_task_frame(s, msg)

Spec == Init /\ [][Next]_vars

\* SpecDispatch: examples/all_elements.rs, one element of each kind, serving
\* clients that send every type of message to every kind of target.
AllElements ==
    << Button("submit-btn", "Submit", "set_status"),
       Text("status", "Ready"),
       Text("echo", "..."),
       Input("name-input", "", "echo"),
       Checkbox("terms-checkbox", FALSE, "on_checkbox"),
       Slider("volume-slider", 50, 0, 100, Some(1), "on_slider"),
       Radio("option-a", "choice", "a", TRUE, "on_radio"),
       NumberInput("quantity-input", 1, Some(1), Some(100), Some(1), "on_number") >>
Targets ==
    {"submit-btn", "status", "name-input", "terms-checkbox", "volume-slider",
     "option-a", "quantity-input", "bx"}
Payloads ==
    {JBool(TRUE), JBool(FALSE), JNumber(42), JNumber(2 ^ MantissaBits + 1), JString("42")}
AllFrames ==
    {Click(id) : id \in Targets}
    \cup {InputMsg(id, "hi") : id \in Targets}
    \cup {Change(id, v) : id \in Targets, v \in Payloads}
\* Frames dispatched in SpecDispatch and in SpecFair.
MaxDispatched == 2

\* The clients of SpecDispatch.
DispatchSessions == {"s1"}

InitDispatch == InitWith(AddAll(EmptyMap, AllElements))

NextDispatch ==
    \/ \E s \in DispatchSessions : update_element(s) \/ get_all_elements(s)
    \/ \E s \in DispatchSessions : ws_connect(s) \/ ws_send_init(s) \/ ws_subscribe(s)
    \/ \E s \in DispatchSessions : send_task_recv(s) \/ send_task_write(s)
    \/ \E s \in DispatchSessions : handle_click_lock(s) \/ handle_click_lookup(s)
    \/ \E s \in DispatchSessions : handle_input_lock(s) \/ handle_input_lookup(s)
    \/ \E s \in DispatchSessions : handle_change_lock(s) \/ handle_change_lookup(s)
    \/ \E s \in DispatchSessions : invoke(s)
    \/ \E s \in DispatchSessions, msg \in AllFrames :
          frames < MaxDispatched /\ recv_task_frame(s, msg)

SpecDispatch == InitDispatch /\ [][NextDispatch]_vars

\* SpecFair: two clients clicking buttons whose handlers call back into the
\* AppState they hold a clone of: update_element (basic.rs 29-38), add_element
\* and get_all_elements.
ReentrantElements ==
    << Button("btn1", "Click Me!", "set_status"),
       Button("btn2", "Add", "add_status"),
       Button("btn3", "List", "list"),
       Text("status", "Ready") >>
ReentrantHandlers == {"set_status", "add_status", "list"}
ReentrantFrames == { Click("btn1"), Click("btn2"), Click("btn3") }

InitFair == InitWith(AddAll(EmptyMap, ReentrantElements))

\* The synchronous code recv_task runs for one frame: the handle_* call, the
\* handler and the AppState call the handler makes.
Dispatch(s) ==
    \/ handle_click_lock(s)
    \/ handle_click_lookup(s)
    \/ invoke(s)
    \/ add_element(s)
    \/ update_element(s)
    \/ get_all_elements(s)

NextFair ==
    \/ \E s \in Sessions : Dispatch(s)
    \/ \E s \in Sessions : ws_connect(s) \/ ws_send_init(s) \/ ws_subscribe(s)
    \/ \E s \in Sessions : send_task_recv(s) \/ send_task_write(s)
    \/ \E s \in Sessions, msg \in ReentrantFrames :
          frames < MaxDispatched /\ recv_task_frame(s, msg)

\* A thread that can take a step of its synchronous code takes it: the worker
\* running recv_task does not stop between two statements, and a thread
\* blocked in Mutex::lock is woken when the Mutex is free.
SpecFair ==
    InitFair /\ [][NextFair]_vars /\ \A s \in Sessions : WF_vars(Dispatch(s))

\* SpecApi: the application thread calling the public methods with every
\* combination of arguments, the id handed to update_element being free of
\* the id inside the element (lib.rs 438: two independent parameters).
ApiKeys == {"a", "b"}
ApiElements ==
    {Text(id, text) : id \in ApiKeys, text \in {"1", "2"}}
    \cup {Button(id, "ok", NoHandler) : id \in ApiKeys}

InitApi == InitWith(EmptyMap)

NextApi ==
    \/ \E element \in ApiElements : app_add_element(element)
    \/ \E id \in ApiKeys, element \in ApiElements : app_update_element(id, element)
    \/ app_get_all_elements
    \/ add_element(App)
    \/ update_element(App)
    \/ get_all_elements(App)

SpecApi == InitApi /\ [][NextApi]_vars

\* SpecApiFair: SpecApi with the application thread running each call it has
\* started to its end (the calls have no await and no loop).
AppCall == add_element(App) \/ update_element(App) \/ get_all_elements(App)
SpecApiFair == InitApi /\ [][NextApi]_vars /\ WF_vars(AppCall)

\* SpecScope: examples/scoped.rs.  The form and the modal register the same
\* local ids; while a client is connected the application goes on calling
\* add_element and update_element on scoped handles, a nested one included,
\* and the client clicks the two submit buttons under their qualified ids.
Form == scope(Root, "form")
Modal == scope(Root, "modal")
FormField == scope(Form, "field")
\* The handle and local id of each call the application makes.
ScopedTargets == {<< Form, "status" >>, << Modal, "status" >>, << FormField, "x" >>}
\* Calls on scoped handles and clicks dispatched in SpecScope, together.
MaxScopedOps == 3

\* The element as a scoped handle's add_element stores it.
InScope(handle, element) ==
    WithId(element, Qualify(handle, ElementId(element)))

ScopedElements ==
    << InScope(Form, Button("submit", "Submit Form", "form_submit")),
       InScope(Form, Text("status", "Ready to submit")),
       InScope(Form, Input("name", "", NoHandler)),
       InScope(Modal, Button("submit", "Close Modal", "modal_submit")),
       InScope(Modal, Text("status", "Modal is open")) >>
ScopedFrames ==
    {Click(Qualify(Form, "submit")), Click(Qualify(Modal, "submit")), Click("submit")}

InitScope == InitWith(AddAll(EmptyMap, ScopedElements))

NextScope ==
    \/ \E target \in ScopedTargets :
          /\ Len(appcalls) + frames < MaxScopedOps
          /\ scoped_add_element(target[1], Text(target[2], "new"))
    \/ \E target \in ScopedTargets :
          /\ Len(appcalls) + frames < MaxScopedOps
          /\ scoped_update_element(target[1], target[2], Text(target[2], "changed"))
    \/ add_element(App)
    \/ update_element(App)
    \/ \E s \in DispatchSessions : update_element(s) \/ get_all_elements(s)
    \/ \E s \in DispatchSessions : ws_connect(s) \/ ws_send_init(s) \/ ws_subscribe(s)
    \/ \E s \in DispatchSessions : send_task_recv(s) \/ send_task_write(s)
    \/ \E s \in DispatchSessions : handle_click_lock(s) \/ handle_click_lookup(s)
    \/ \E s \in DispatchSessions : invoke(s)
    \/ \E s \in DispatchSessions, msg \in ScopedFrames :
          Len(appcalls) + frames < MaxScopedOps /\ recv_task_frame(s, msg)

SpecScope == InitScope /\ [][NextScope]_vars

\* SpecClick: the setting of tests::test_button_click_e2e (lib.rs 797-832),
\* one Button whose handler records that it was called, here by counting in
\* calls["count"]; the clients click it and an id that is not registered.
ClickElements == << Button("b1", "Click", "count") >>
ClickFrames == { Click("b1"), Click("bx") }

InitClick == InitWith(AddAll(EmptyMap, ClickElements))

NextClick ==
    \/ \E s \in Sessions : get_all_elements(s)
    \/ \E s \in Sessions : ws_connect(s) \/ ws_send_init(s) \/ ws_subscribe(s)
    \/ \E s \in Sessions : handle_click_lock(s) \/ handle_click_lookup(s)
    \/ \E s \in Sessions : invoke(s)
    \/ \E s \in Sessions, msg \in ClickFrames : recv_task_frame(s, msg)

SpecClick == InitClick /\ [][NextClick]_vars

\* SpecTotal: one element of any kind, with or without a handler, registered
\* under "el"; a client sends every type of message, with every type of
\* payload, for "el" and for an id that is not registered.
TotalElements ==
    {Button("el", "b", h) : h \in {"count", NoHandler}}
    \cup {Text("el", "t")}
    \cup {Input("el", "", h) : h \in {"on_input", NoHandler}}
    \cup {Checkbox("el", FALSE, h) : h \in {"on_checkbox", NoHandler}}
    \cup {Slider("el", 50, 0, 100, Some(1), h) : h \in {"on_slider", NoHandler}}
    \cup {Radio("el", "choice", "a", FALSE, h) : h \in {"on_radio", NoHandler}}
    \cup {NumberInput("el", 1, Some(1), Some(100), Some(1), h) :
              h \in {"on_number", NoHandler}}
TotalFrames ==
    {Click(id) : id \in {"el", "bx"}}
    \cup {InputMsg(id, "hi") : id \in {"el", "bx"}}
    \cup {Change(id, v) : id \in {"el", "bx"}, v \in Payloads}

InitTotal == \E element \in TotalElements : InitWith(AddAll(EmptyMap, << element >>))

NextTotal ==
    \/ \E s \in DispatchSessions : get_all_elements(s)
    \/ \E s \in DispatchSessions : ws_connect(s) \/ ws_send_init(s) \/ ws_subscribe(s)
    \/ \E s \in DispatchSessions : handle_click_lock(s) \/ handle_click_lookup(s)
    \/ \E s \in DispatchSessions : handle_input_lock(s) \/ handle_input_lookup(s)
    \/ \E s \in DispatchSessions : handle_change_lock(s) \/ handle_change_lookup(s)
    \/ \E s \in DispatchSessions : invoke(s)
    \/ \E s \in DispatchSessions, msg \in TotalFrames :
          frames < MaxDispatched /\ recv_task_frame(s, msg)

SpecTotal == InitTotal /\ [][NextTotal]_vars

\* SpecLag: examples/basic.rs serving two clients over sockets that never
\* fail and never close: the only way a task can end is the channel.
NextLag ==
    \/ \E s \in Sessions : update_element(s) \/ get_all_elements(s)
    \/ \E s \in Sessions : ws_connect(s) \/ ws_send_init(s) \/ ws_subscribe(s)
    \/ \E s \in Sessions : send_task_recv(s) \/ send_task_lagged(s) \/ send_task_write(s)
    \/ \E s \in Sessions : recv_task_cancelled(s) \/ ws_select(s)
    \/ \E s \in Sessions : handle_click_lock(s) \/ handle_click_lookup(s)
    \/ \E s \in Sessions : invoke(s)
    \/ \E s \in Sessions, msg \in BasicFrames : recv_task_frame(s, msg)

SpecLag == Init /\ [][NextLag]_vars

\* SpecFrames: one Button with a counting handler; the client sends frames of
\* every shape, well-formed and not.
SocketFrames ==
    { BinaryFrame,
      TextFrame(NotJson),
      TextFrame(JNumber(42)),
      TextFrame(JObject([type |-> JString("click"), id |-> JString("b1")])),
      TextFrame(JObject([type |-> JString("click"), id |-> JString("b1"),
                         extra |-> JBool(TRUE)])),
      TextFrame(JObject([type |-> JString("click")])),
      TextFrame(JObject([type |-> JString("click"), id |-> JNumber(42)])),
      TextFrame(JObject([id |-> JString("b1")])),
      TextFrame(JObject([type |-> JString("hover"), id |-> JString("b1")])),
      TextFrame(JObject([type |-> JString("input"), id |-> JString("b1"),
                         value |-> JString("hi")])),
      TextFrame(JObject([type |-> JString("input"), id |-> JString("b1"),
                         value |-> JNumber(42)])),
      TextFrame(JObject([type |-> JString("change"), id |-> JString("b1"),
                         value |-> JBool(TRUE)])),
      TextFrame(JObject([type |-> JString("change"), id |-> JString("b1")])) }

NextFrames ==
    \/ \E s \in DispatchSessions : get_all_elements(s)
    \/ \E s \in DispatchSessions : ws_connect(s) \/ ws_send_init(s) \/ ws_subscribe(s)
    \/ \E s \in DispatchSessions : handle_click_lock(s) \/ handle_click_lookup(s)
    \/ \E s \in DispatchSessions : handle_input_lock(s) \/ handle_input_lookup(s)
    \/ \E s \in DispatchSessions : handle_change_lock(s) \/ handle_change_lookup(s)
    \/ \E s \in DispatchSessions : invoke(s)
    \/ \E s \in DispatchSessions, frame \in SocketFrames : recv_task_next(s, frame)

SpecFrames == InitClick /\ [][NextFrames]_vars

\* SpecClose: examples/basic.rs serving two clients whose sockets may fail
\* or close at any moment.  The runtime polls websocket() when one of its
\* tasks has finished and drops an aborted task at its await; a thread inside
\* a dispatch runs on.
NextClose ==
    \/ \E s \in Sessions : update_element(s) \/ get_all_elements(s)
    \/ \E s \in Sessions : ws_connect(s) \/ ws_send_init(s) \/ ws_send_init_fails(s)
    \/ \E s \in Sessions : ws_subscribe(s)
    \/ \E s \in Sessions : send_task_recv(s) \/ send_task_write(s)
    \/ \E s \in Sessions : send_task_write_fails(s)
    \/ \E s \in Sessions : recv_task_skip(s) \/ recv_task_end(s)
    \/ \E s \in Sessions : recv_task_cancelled(s) \/ ws_select(s)
    \/ \E s \in Sessions : send_task_cancelled(s) \/ send_task_write_aborted(s)
    \/ \E s \in Sessions : handle_click_lock(s) \/ handle_click_lookup(s)
    \/ \E s \in Sessions : invoke(s)
    \/ \E s \in Sessions, msg \in BasicFrames :
          frames < MaxDispatched /\ recv_task_frame(s, msg)

SpecClose ==
    /\ Init /\ [][NextClose]_vars
    /\ \A s \in Sessions :
          /\ WF_vars(Dispatch(s))
          /\ WF_vars(ws_select(s))
          /\ WF_vars(recv_task_cancelled(s))
          /\ WF_vars(send_task_cancelled(s))

\* SpecReplace: the Button of SpecClick is replaced while a client clicks it:
\* the application thread calls add_element and update_element for "b1" with
\* a Button that has another handler, a Button without handler, a Checkbox,
\* and the first Button again.  The client's socket is not written to after
\* init (its send_task is not scheduled).
ReplaceSessions == {"s1"}
Added ==
    { Button("b1", "New", "recount"),
      Button("b1", "Plain", NoHandler) }
Updated ==
    { Checkbox("b1", FALSE, "on_checkbox"),
      Button("b1", "Click", "count") }
ReplaceFrames == { Click("b1") }

NextReplace ==
    \/ \E element \in Added : app_add_element(element)
    \/ \E element \in Updated : app_update_element("b1", element)
    \/ add_element(App)
    \/ update_element(App)
    \/ \E s \in ReplaceSessions : get_all_elements(s)
    \/ \E s \in ReplaceSessions : ws_connect(s) \/ ws_send_init(s) \/ ws_subscribe(s)
    \/ \E s \in ReplaceSessions : handle_click_lock(s) \/ handle_click_lookup(s)
    \/ \E s \in ReplaceSessions : invoke(s)
    \/ \E s \in ReplaceSessions, msg \in ReplaceFrames :
          frames < MaxDispatched /\ recv_task_frame(s, msg)

SpecReplace == InitClick /\ [][NextReplace]_vars

\* SpecServe: after registering the Button of SpecClick main() calls
\* start_server, as examples/all_elements.rs does (line 171), with an address
\* that may be free, taken or not an address at all; clients connect to the
\* server once it serves, and click.
Ports == {3000, 80}
Addrs == {SocketAddr("127.0.0.1", port) : port \in Ports} \cup {Unparsable}

NextServe ==
    \/ \E addr \in Addrs, in_use \in SUBSET Ports : start_server_config(addr, in_use)
    \/ start_server_bind
    \/ \E s \in Sessions : serve_accept(s)
    \/ \E s \in Sessions : get_all_elements(s)
    \/ \E s \in Sessions : ws_send_init(s) \/ ws_subscribe(s)
    \/ \E s \in Sessions : handle_click_lock(s) \/ handle_click_lookup(s)
    \/ \E s \in Sessions : invoke(s)
    \/ \E s \in Sessions, msg \in ClickFrames :
          frames < MaxDispatched /\ recv_task_frame(s, msg)

SpecServe == InitClick /\ [][NextServe]_vars

\* SpecRange: the application registers and updates a Slider and a
\* NumberInput like those of examples/all_elements.rs (lines 92-97, 149-154)
\* with values of its choice: inside the range, below it and above it.
Values == {0 - 1, 50, 150}
RangeElements ==
    {Slider("volume-slider", value, 0, 100, Some(1), NoHandler) : value \in Values}
    \cup {NumberInput("quantity-input", value, Some(1), Some(100), Some(1), NoHandler) :
             value \in Values}
    \cup {NumberInput("quantity-input", value, None, None, None, NoHandler) :
             value \in Values}

NextRange ==
    \/ \E element \in RangeElements : app_add_element(element)
    \/ \E element \in RangeElements : app_update_element(ElementId(element), element)
    \/ add_element(App)
    \/ update_element(App)

SpecRange == InitApi /\ [][NextRange]_vars

\* SpecRace: the echo Text and the Input of examples/all_elements.rs (lines
\* 49-80); two clients type different texts, so that the two handlers call
\* update_element("echo", ..) with different elements at the same time.
RaceElements ==
    << Input("name-input", "", "echo"), Text("echo", "...") >>
RaceFrames == { InputMsg("name-input", "a"), InputMsg("name-input", "b") }

InitRace == InitWith(AddAll(EmptyMap, RaceElements))

NextRace ==
    \/ \E s \in Sessions : update_element(s) \/ get_all_elements(s)
    \/ \E s \in Sessions : ws_connect(s) \/ ws_send_init(s) \/ ws_subscribe(s)
    \/ \E s \in Sessions : send_task_recv(s) \/ send_task_write(s)
    \/ \E s \in Sessions : handle_input_lock(s) \/ handle_input_lookup(s)
    \/ \E s \in Sessions : invoke(s)
    \/ \E s \in Sessions, msg \in RaceFrames :
          frames < MaxDispatched /\ recv_task_frame(s, msg)

SpecRace == InitRace /\ [][NextRace]_vars

\* ================================================================== claims

\* The thread of session s is executing a callback outside the critical
\* sections of the AppState calls the callback itself makes.
InCallback(s) ==
    \/ pc[s] = "invoke"
    \/ /\ running[s] # NoHandler
       /\ pc[s] \in {"add_lock", "update_lock", "update_send", "get_lock"}

\* C1: in every reachable state no callback is executing on a thread that
\* still holds the registry lock: handle_click, handle_input and
\* handle_change have each released the Mutex when they call the handler
\* they looked up.
C1_HandlerRunsUnlocked ==
    \A s \in Sessions : InCallback(s) => lock # s

\* C1's case: a change was dispatched to the slider's handler, and the input
\* handler is now running and about to call back into update_element.
C1_Witness ==
    \E s \in Sessions :
        /\ calls["on_slider"] = 1
        /\ running[s] = "echo"
        /\ pc[s] = "update_lock"

\* update_tx.send of thread t is one step that stores the message of t's call
\* as the newest unread value of every receiver.
Published ==
    \A t \in Threads :
        (pc[t] = "update_send" /\ pc'[t] # "update_send")
           => /\ nsent' = nsent + 1
              /\ \A r \in Sessions :
                    rx[r].live =>
                       /\ rx'[r].queue # << >>
                       /\ rx'[r].queue[Len(rx'[r].queue)]
                             = UpdateMsg(call[t].id, call[t].element, nsent')

\* C2: a handler that calls update_element, add_element or get_all_elements
\* on the AppState never deadlocks: once a dispatch has reached its handler,
\* the handler's call gets the lock, the mutation is applied to the registry,
\* an update is published, and the dispatch completes with the thread back in
\* recv_task's loop.
C2_ReentrantHandlerCompletes ==
    /\ \A s \in Sessions : \A h \in ReentrantHandlers :
          (pc[s] = "invoke" /\ hcall[s].h = h)
             ~> (pc[s] = "recv" /\ running[s] = NoHandler /\ lock # s)
    /\ \A s \in Sessions :
          (pc[s] = "invoke" /\ hcall[s].h = "set_status")
             ~> (pc[s] = "update_send" /\ running[s] = "set_status"
                 /\ elements["status"] = Text("status", "clicked"))
    /\ \A s \in Sessions :
          (pc[s] = "invoke" /\ hcall[s].h = "add_status")
             ~> (pc[s] = "recv" /\ elements["status"] = Text("status", "added"))
    /\ \A s \in Sessions : \A n \in 0 .. MaxDispatched :
          (pc[s] = "update_send" /\ nsent = n) ~> (pc[s] = "recv" /\ nsent > n)
    /\ [][Published]_vars

\* C2's case: both sessions are inside re-entrant handlers, one inserting
\* under the lock while the other is blocked in Mutex::lock.
C2_Witness ==
    \E s, t \in Sessions :
        /\ running[s] = "set_status" /\ pc[s] = "update_insert" /\ lock = s
        /\ running[t] = "add_status" /\ pc[t] = "add_lock"

\* The clones of the values under the keys K of map m, as a bag.
ValuesBag(m, K) ==
    [e \in {m[k] : k \in K} |-> Cardinality({k \in K : m[k] = e})]

\* C3: the elements get_all_elements has cloned so far are the registry's
\* current values of the keys visited, at every step of the iteration; so the
\* Vec it returns, which websocket() sends as init, is the full registry
\* content of one instant and never mixes values from before and after a
\* concurrent add_element/update_element.
C3_SnapshotIsOneInstant ==
    \A t \in Threads :
        /\ pc[t] = "get_clone" =>
              /\ lock = t
              /\ vec[t].left \subseteq DOMAIN elements
              /\ vec[t].out = ValuesBag(elements, DOMAIN elements \ vec[t].left)
        /\ pc[t] = "send_init" => vec[t].left = {}

\* C3's case: a session is half way through its snapshot while another
\* session's callback waits to update the registry, which a callback has
\* already changed once.
C3_Witness ==
    \E s, t \in Sessions :
        /\ pc[s] = "get_clone"
        /\ vec[s].left # {} /\ vec[s].out # EmptyBag
        /\ running[t] = "set_status" /\ pc[t] = "update_lock"
        /\ elements["status"] = Text("status", "clicked")

\* How many copies of the update message with serial number n session s
\* holds: written to its client, in send_task's hands, or unread in its queue.
Copies(s, n) ==
    Cardinality({i \in 1..Len(client[s]) :
                    client[s][i].type = "update" /\ client[s][i].n = n})
    + (IF out[s].type = "update" /\ out[s].n = n THEN 1 ELSE 0)
    + Cardinality({i \in 1..Len(rx[s].queue) : rx[s].queue[i].n = n})

\* The serial numbers of the messages sent since session s subscribed.
SentSince(s) == (since[s] + 1) .. nsent

\* update_element's insert puts the element under the id, and the entry of a
\* key changes only in an insert for that key.
RegistryReflects ==
    /\ \A t \in Threads :
          (pc[t] = "update_insert" /\ pc'[t] = "update_send")
             => /\ call[t].id \in DOMAIN elements'
                /\ elements'[call[t].id] = call[t].element
    /\ \A k \in DOMAIN elements' :
          (k \notin DOMAIN elements \/ elements'[k] # elements[k])
             => \E t \in Threads :
                   /\ pc[t] \in {"update_insert", "add_insert"}
                   /\ pc'[t] # pc[t]
                   /\ call[t].id = k

\* C4 as stated: every subscribed session observes exactly one update
\* message for each update_element call, none missing.
C4_ExactlyOnce ==
    \A s \in Sessions :
        rx[s].live => \A n \in SentSince(s) : Copies(s, n) = 1

\* C4, amended: every update_element call puts one update message carrying
\* its id and element in the queue of each subscribed session; a session holds
\* at most one copy of it, and holds none only when its receiver has lagged,
\* that is when at least Capacity newer messages were sent before the session
\* read it.  The registry holds the element under the id from the insert until
\* the next insert for that id.
C4_AtMostOnceUnlessLagged ==
    /\ [](\A s \in Sessions :
            rx[s].live =>
               \A n \in SentSince(s) :
                  /\ Copies(s, n) <= 1
                  /\ Copies(s, n) = 0 => (rx[s].lagged /\ n + Capacity <= nsent))
    /\ [][RegistryReflects]_vars

\* C4's case: one update message has been written to both clients.
C4_Witness ==
    \E n \in 1..nsent :
        \A s \in Sessions :
            \E i \in 1..Len(client[s]) :
                /\ client[s][i].type = "update"
                /\ client[s][i].n = n
                /\ client[s][i].id = "status"
                /\ client[s][i].element = Text("status", "clicked")

\* The calls of the application thread that have written to the registry: all
\* its add_element and update_element calls but one still before its insert.
Applied ==
    {i \in 1 .. Len(appcalls) :
        /\ appcalls[i].op # "get"
        /\ \/ i < Len(appcalls)
           \/ pc[App] \notin {"add_lock", "add_insert", "update_lock", "update_insert"}}

\* The latest applied call that wrote key k.
LastWrite(k) ==
    CHOOSE i \in Applied :
        /\ appcalls[i].id = k
        /\ \A j \in Applied : appcalls[j].id = k => j <= i

\* The Vec a get_all_elements call of the application thread is about to
\* return.
SnapshotReady == pc[App] = "get_clone" /\ vec[App].left = {}

\* C5: the registry has exactly one entry per identifier inserted, holding
\* the element of the latest insert for it (of two add_element calls with the
\* same identifier the second wins), and the snapshot get_all_elements returns
\* has as many elements as there are distinct identifiers ever inserted; when
\* all inserts were add_element calls, exactly one element of the snapshot
\* carries each identifier.
C5_SecondInsertWins ==
    /\ DOMAIN elements = {appcalls[i].id : i \in Applied}
    /\ inserted = DOMAIN elements
    /\ \A k \in DOMAIN elements : elements[k] = appcalls[LastWrite(k)].element
    /\ SnapshotReady =>
          /\ BagCardinality(vec[App].out) = Cardinality(inserted)
          /\ vec[App].out = ValuesBag(elements, DOMAIN elements)
          /\ (\A i \in Applied : appcalls[i].op = "add") =>
                \A k \in inserted :
                    /\ CopiesIn(elements[k], vec[App].out) = 1
                    /\ \A e \in BagToSet(vec[App].out) :
                          ElementId(e) = k => e = elements[k]

\* C5's case: add_element was called twice with identifier "a" and different
\* texts, and the snapshot taken afterwards holds the second element only.
C5_Witness ==
    /\ appcalls = << [op |-> "add", id |-> "a", element |-> Text("a", "1")],
                     [op |-> "add", id |-> "a", element |-> Text("a", "2")],
                     [op |-> "get"] >>
    /\ SnapshotReady
    /\ vec[App].out = SetToBag({Text("a", "2")})

\* C6 as stated: every entry is stored under the key equal to its element's
\* own id, and no two elements of a snapshot carry the same id.
C6_OneElementPerId ==
    /\ \A k \in DOMAIN elements : ElementId(elements[k]) = k
    /\ SnapshotReady =>
          \A e \in BagToSet(vec[App].out) :
              /\ CopiesIn(e, vec[App].out) = 1
              /\ \A f \in BagToSet(vec[App].out) : ElementId(f) = ElementId(e) => f = e

\* Thread t is inside a call made through a scoped handle.
Scoped(t) == "scope" \in DOMAIN call[t]

\* The update messages with id k in the queue of session r.
Queued(r, k) ==
    {i \in 1 .. Len(rx[r].queue) : rx[r].queue[i].id = k}

\* The identifier of the same local id in the other one of the two scopes.
OtherStatus(k) == IF k = "form::status" THEN "modal::status" ELSE "form::status"

\* An update_element("status", ..) on the handle "form" or "modal" writes the
\* entry of its own scope and leaves the other scope's entry as it is, and
\* the message it sends carries its own scope's identifier: no receiver gets
\* a message for the other scope's entry.
ScopedUpdateIsolated ==
    \A t \in Threads :
        (Scoped(t) /\ call[t].op = "update" /\ call[t].local = "status"
                   /\ call[t].scope \in {<< "form" >>, << "modal" >>})
        => LET mine == IF call[t].scope = << "form" >>
                       THEN "form::status" ELSE "modal::status"
           IN /\ (pc[t] = "update_insert" /\ pc'[t] = "update_send")
                    => /\ elements'[mine].text = call[t].element.text
                       /\ elements'[OtherStatus(mine)] = elements[OtherStatus(mine)]
              /\ (pc[t] = "update_send" /\ pc'[t] # "update_send")
                    => /\ elements' = elements
                       /\ \A r \in Sessions :
                             rx[r].live =>
                                /\ rx'[r].queue[Len(rx'[r].queue)].id = mine
                                /\ Cardinality({i \in 1 .. Len(rx'[r].queue) :
                                        rx'[r].queue[i].id = OtherStatus(mine)})
                                      <= Cardinality(Queued(r, OtherStatus(mine)))

\* C7: the scopes "form" and "modal", each registering the local id
\* "status", have two entries in the shared registry, "form::status" and
\* "modal::status" (and none under the bare local id), and
\* update_element("status", ..) on one of the handles changes only its own
\* scope's entry and publishes no update whose id is the other scope's entry.
C7_ScopesIsolated ==
    /\ [](/\ {"form::status", "modal::status"} \subseteq DOMAIN elements
          /\ "status" \notin DOMAIN elements
          /\ \A k \in {"form::status", "modal::status"} : ElementId(elements[k]) = k)
    /\ [][ScopedUpdateIsolated]_vars

\* C7's case: the form's submit handler has updated the form's status and the
\* client has been sent that update, while the modal's status, registered
\* again by the application, is not the form's.
C7_Witness ==
    /\ \E i \in 1 .. Len(client["s1"]) :
          /\ client["s1"][i].type = "update"
          /\ client["s1"][i].id = "form::status"
          /\ client["s1"][i].element.text = "Form submitted successfully!"
    /\ elements["form::status"].text = "Form submitted successfully!"
    /\ elements["modal::status"].text = "new"
    /\ calls["form_submit"] = 1

\* The fully-qualified identifier, written out, of each handle and local id
\* used: << path, local id, identifier >>.
Qualified ==
    { << << "form" >>, "status", "form::status" >>,
      << << "modal" >>, "status", "modal::status" >>,
      << << "form", "field" >>, "x", "form::field::x" >> }

\* A call made through a scoped handle inserts under the fully-qualified
\* identifier and under no other key, and sends its update with that
\* identifier; a click for a qualified identifier finds the handler the
\* scope registered under the local id.
ScopedActsOnQualified ==
    /\ \A t \in Threads :
          Scoped(t) =>
             \E q \in Qualified :
                /\ q[1] = call[t].scope
                /\ q[2] = call[t].local
                /\ (pc[t] \in {"add_insert", "update_insert"} /\ pc'[t] # pc[t])
                      => /\ q[3] \in DOMAIN elements'
                         /\ elements'[q[3]] = WithId(call[t].element, q[3])
                         /\ \A k \in DOMAIN elements' \ {q[3]} :
                               k \in DOMAIN elements /\ elements'[k] = elements[k]
                /\ (pc[t] = "update_send" /\ pc'[t] # "update_send")
                      => \A r \in Sessions :
                            rx[r].live =>
                               /\ rx'[r].queue[Len(rx'[r].queue)].id = q[3]
                               /\ rx'[r].queue[Len(rx'[r].queue)].element.id = q[3]
    /\ \A s \in Sessions :
          (pc[s] = "click_lookup" /\ pc'[s] # "click_lookup")
             => hcall'[s].h =
                   (CASE ev[s].id = "form::submit" -> "form_submit"
                      [] ev[s].id = "modal::submit" -> "modal_submit"
                      [] OTHER -> NoHandler)

\* C8: every add_element and update_element on a scoped handle, and the
\* lookup of an event, acts on the shared registry under the identifier made
\* of the handle's segments and the local id joined with "::", for a scope of
\* a scope too ("form" then "field" with x is "form::field::x"), and the
\* update message broadcast carries that identifier.
C8_ScopedActsOnQualifiedId ==
    [][ScopedActsOnQualified]_vars

\* C8's case: the application has updated x through the handle of the scope
\* "field" of the scope "form", and the client has been sent the update.
C8_Witness ==
    /\ "form::field::x" \in DOMAIN elements
    /\ elements["form::field::x"].text = "changed"
    /\ \E i \in 1 .. Len(client["s1"]) :
          /\ client["s1"][i].type = "update"
          /\ client["s1"][i].id = "form::field::x"
    /\ calls["modal_submit"] = 1

\* The payload of change message msg does not coerce to the scalar type of
\* the element registered under its id.
Mismatch(msg) ==
    /\ msg.type = "change"
    /\ msg.id \in DOMAIN elements
    /\ \/ /\ elements[msg.id].kind \in {"slider", "number"}
          /\ msg.payload.t \in {"bool", "string"}
       \/ /\ elements[msg.id].kind \in {"checkbox", "radio"}
          /\ msg.payload.t \in {"number", "string"}

\* The steps handle_change takes for a mismatched change message end back in
\* recv_task's loop without a handler call and change neither the registry
\* nor any handler's counter, and nothing is published.
MismatchIsNoOp ==
    \A s \in Sessions :
        (pc[s] \in {"change_lock", "change_lookup"} /\ Mismatch(ev[s]) /\ pc'[s] # pc[s])
           => /\ pc'[s] \in {"change_lookup", "recv"}
              /\ hcall'[s] = NoHCall
              /\ running'[s] = NoHandler
              /\ elements' = elements
              /\ calls' = calls
              /\ got' = got
              /\ nsent' = nsent

\* C9: a change event whose payload does not coerce to the type of its
\* target's kind (a boolean or string against a Slider or NumberInput, a
\* number or string against a Checkbox or Radio) invokes no handler and
\* leaves the registry and every handler's invocation counter unchanged.
C9_MismatchedChangeIsNoOp ==
    [][MismatchIsNoOp]_vars

\* C9's case: the slider was sent a number and a boolean; both dispatches are
\* over, and its handler ran once, for the number.
C9_Witness ==
    /\ seen = SetToBag({Change("volume-slider", JNumber(42)),
                        Change("volume-slider", JBool(TRUE))})
    /\ pc["s1"] = "recv"
    /\ calls["on_slider"] = 1
    /\ got["on_slider"] = Some(JNumber(42))

\* The click frames for id received so far.
Clicks(id) == CopiesIn(Click(id), seen)

\* The sessions whose dispatch of a click for id has not yet called the
\* handler.
Dispatching(id) ==
    {s \in Sessions :
        \/ pc[s] \in {"click_lock", "click_lookup"} /\ ev[s] = Click(id)
        \/ pc[s] = "invoke"}

\* C10: the counter of the handler registered on Button "b1" equals the
\* number of click events for "b1" dispatched (those received less those
\* still on their way to the handler), so every click for "b1" adds exactly
\* one and a click for the unregistered "bx" adds nothing; the registry is
\* what it was.
C10_CounterCountsClicks ==
    /\ calls["count"] = Clicks("b1") - Cardinality(Dispatching("b1"))
    /\ elements = AddAll(EmptyMap, ClickElements)
    /\ \A h \in Handlers \ {"count"} : calls[h] = 0

\* C10's case: "b1" was clicked twice and "bx" once, all three dispatches are
\* over, and the counter is 2.
C10_Witness ==
    /\ Clicks("b1") = 2
    /\ Clicks("bx") = 1
    /\ Dispatching("b1") = {}
    /\ \A s \in Sessions : pc[s] = "recv"
    /\ calls["count"] = 2

\* The handler the claim says message msg invokes, or NoHandler: the kind of
\* the element under msg.id against the type of msg (and of its payload).
Invoked(msg) ==
    IF msg.id \notin DOMAIN elements THEN NoHandler
    ELSE LET e == elements[msg.id]
         IN CASE msg.type = "click" /\ e.kind = "button" -> e.on_click
              [] msg.type = "input" /\ e.kind = "input" -> e.on_input
              [] msg.type = "change" /\ e.kind \in {"checkbox", "radio"}
                 /\ msg.payload.t = "bool" -> e.on_change
              [] msg.type = "change" /\ e.kind \in {"slider", "number"}
                 /\ msg.payload.t = "number" -> e.on_change
              [] OTHER -> NoHandler

\* Each step of a dispatch: the message is handled by the handle_* of its
\* type; the lookup goes on to call the handler Invoked names, or, when it
\* names none, returns to recv_task's loop; no step of a dispatch writes to
\* the client, changes the session's phase or stops a task.
DispatchStepTotal ==
    \A s \in Sessions :
        (pc[s] \in {"click_lock", "click_lookup", "input_lock", "input_lookup",
                    "change_lock", "change_lookup", "invoke"} /\ pc'[s] # pc[s])
           => /\ client'[s] = client[s]
              /\ phase'[s] = phase[s]
              /\ sendpc'[s] = sendpc[s]
              /\ aborted'[s] = aborted[s]
              /\ nsent' = nsent
              /\ pc[s] \in {"click_lock", "click_lookup"} => ev[s].type = "click"
              /\ pc[s] \in {"input_lock", "input_lookup"} => ev[s].type = "input"
              /\ pc[s] \in {"change_lock", "change_lookup"} => ev[s].type = "change"
              /\ pc[s] \in {"click_lookup", "input_lookup", "change_lookup"}
                    => /\ hcall'[s].h = Invoked(ev[s])
                       /\ pc'[s] = IF Invoked(ev[s]) = NoHandler THEN "recv" ELSE "invoke"
                       /\ calls' = calls
              /\ pc[s] = "invoke"
                    => /\ calls' = [calls EXCEPT ![hcall[s].h] = calls[hcall[s].h] + 1]
                       /\ pc'[s] = "recv"

\* C11: dispatch is total over element kind and event kind: click calls a
\* handler only for a Button with a handler, input only for an Input with a
\* handler, change only for a Checkbox, Radio, Slider or NumberInput with a
\* handler and a payload of its type; every other combination (a Text
\* target, a missing handler, an unknown id, a mismatched payload) calls
\* nothing, writes nothing to the client and leaves the session active.
C11_DispatchIsTotal ==
    /\ [][DispatchStepTotal]_vars
    /\ [](\A s \in Sessions :
             phase[s] = "active" => pc[s] \notin {"done", "cancelled", "closed"})

\* C11's case: a Checkbox with a handler was sent a click and a boolean
\* change; both dispatches are over, only the change called the handler, and
\* the session is active with nothing but init written to the client.
C11_Witness ==
    /\ "el" \in DOMAIN elements
    /\ elements["el"].kind = "checkbox"
    /\ seen = SetToBag({Click("el"), Change("el", JBool(TRUE))})
    /\ pc["s1"] = "recv"
    /\ phase["s1"] = "active"
    /\ calls["on_checkbox"] = 1
    /\ \A h \in Handlers \ {"on_checkbox"} : calls[h] = 0
    /\ Len(client["s1"]) = 1

\* The value message msg carries for a handler: the string of an input
\* message, the payload of a change message.
PayloadOf(msg) ==
    CASE msg.type = "input" -> JString(msg.value)
      [] msg.type = "change" -> msg.payload
      [] OTHER -> Unit

\* C12 as stated: whatever a handler received is exactly the value some
\* message of the client carried.
C12_ExactPayload ==
    \A h \in Handlers :
        got[h] # None => \E msg \in BagToSet(seen) : PayloadOf(msg) = got[h][1]

\* v is what an f64 holds for the integer n: n itself when n has at most
\* MantissaBits bits, else a multiple of the unit in the last place no further
\* from n than half that unit.
HeldAsF64(n, v) ==
    IF n <= 2 ^ MantissaBits THEN v = n
    ELSE LET ulp == 2 ^ (Bits(n) - MantissaBits)
         IN v % ulp = 0 /\ 2 * v - 2 * n <= ulp /\ 2 * n - 2 * v <= ulp

\* A lookup that finds a handler hands it the message's value: the string of
\* an input message, the boolean of a change message, the number of a change
\* message as an f64; and the handler is called with that value.
HandlerGetsPayload ==
    \A s \in Sessions :
        /\ (pc[s] \in {"input_lookup", "change_lookup"} /\ pc'[s] = "invoke")
              => /\ hcall'[s].arg.t = PayloadOf(ev[s]).t
                 /\ hcall'[s].arg.t = "string" => hcall'[s].arg.s = ev[s].value
                 /\ hcall'[s].arg.t = "bool" => hcall'[s].arg.b = ev[s].payload.b
                 /\ hcall'[s].arg.t = "number"
                       => HeldAsF64(ev[s].payload.n, hcall'[s].arg.n)
        /\ (pc[s] = "invoke" /\ pc'[s] # "invoke")
              => got'[hcall[s].h] = Some(hcall[s].arg)

\* C12, amended: a handler that is called receives the string of the input
\* event, the boolean of the change event, or the number of the change event
\* converted to an f64: the number itself when an f64 holds it exactly (42
\* arrives as 42), the nearest f64 otherwise.
C12_PayloadAsF64 ==
    [][HandlerGetsPayload]_vars

\* C12's case: the slider's handler was called with 42 for a change message
\* carrying 42, and the input's handler with the string the client typed.
C12_Witness ==
    /\ seen = SetToBag({Change("volume-slider", JNumber(42)), InputMsg("name-input", "hi")})
    /\ got["on_slider"] = Some(JNumber(42))
    /\ got["echo"] = Some(JString("hi"))

\* No session holds a receiver of the channel.
NoSubscriber == \A r \in Sessions : ~rx[r].live

\* With no subscriber, update_element's insert leaves the element under the
\* id, and its send stores nothing, changes nothing in the registry and
\* returns to the caller.
UpdateWithoutSubscriber ==
    NoSubscriber =>
        /\ (pc[App] = "update_insert" /\ pc'[App] # "update_insert")
              => /\ pc'[App] = "update_send"
                 /\ elements'[call[App].id] = call[App].element
        /\ (pc[App] = "update_send" /\ pc'[App] # "update_send")
              => /\ pc'[App] = "idle"
                 /\ rx' = rx
                 /\ elements' = elements
                 /\ elements[call[App].id] = call[App].element

\* C13: update_element called while no session is subscribed does not block
\* and does not fail: the call always returns, and the registry holds the new
\* element under the id when it does.
C13_UpdateWithoutSubscriberReturns ==
    /\ (pc[App] = "update_lock" /\ NoSubscriber) ~> (pc[App] = "idle")
    /\ [][UpdateWithoutSubscriber]_vars

\* C13's case: update_element("a", ..) has returned on an AppState that
\* never had a subscriber, nothing was queued anywhere, and the registry
\* holds the element.
C13_Witness ==
    /\ appcalls = << [op |-> "update", id |-> "a", element |-> Text("a", "1")] >>
    /\ pc[App] = "idle"
    /\ nsent = 1
    /\ NoSubscriber
    /\ \A r \in Sessions : rx[r].queue = << >>
    /\ elements["a"] = Text("a", "1")

\* The send of update_element by thread t returns to t's caller at once and
\* gives every receiver the message as its newest unread value; a receiver
\* that already had Capacity unread values loses its oldest one and keeps
\* Capacity.
SendOverwritesOldest ==
    \A t \in Threads :
        (pc[t] = "update_send" /\ pc'[t] # "update_send")
           => /\ pc'[t] = Return(t)
              /\ \A r \in Sessions :
                    rx[r].live =>
                       IF Len(rx[r].queue) = Capacity
                       THEN /\ rx'[r].queue =
                                  Append(Tail(rx[r].queue),
                                         UpdateMsg(call[t].id, call[t].element, nsent'))
                            /\ rx'[r].lagged
                       ELSE rx'[r].queue =
                               Append(rx[r].queue,
                                      UpdateMsg(call[t].id, call[t].element, nsent'))

\* C14: update_element never waits for a subscriber.  Its insert and its
\* send can always be taken when the thread has reached them, whatever any
\* receiver's queue holds, so the call is over after three steps of its own
\* (lock, insert, send); a receiver with Capacity unread messages has its
\* oldest dropped in the send.
C14_UpdateNeverWaitsForSubscriber ==
    /\ [](\A t \in Threads :
             /\ pc[t] = "update_insert" => lock = t /\ ENABLED update_element_insert(t)
             /\ pc[t] = "update_send" => ENABLED update_element_send(t)
             /\ \A r \in Sessions : Len(rx[r].queue) <= Capacity)
    /\ [][SendOverwritesOldest]_vars

\* C14's case: a subscriber had Capacity unread messages when one more
\* update_element call was made; the call has returned and the subscriber
\* still has Capacity unread messages, the oldest one gone.
C14_Witness ==
    \E r \in Sessions :
        /\ rx[r].live /\ rx[r].lagged
        /\ Len(rx[r].queue) = Capacity
        /\ rx[r].queue[1].n = nsent - Capacity + 1
        /\ nsent = Capacity + 1
        /\ \A t \in Threads : pc[t] \notin {"update_lock", "update_insert", "update_send"}

\* C15 as stated: with no socket close, write failure or read failure, a
\* session is never closed and neither of its tasks ever ends, however far
\* its receiver falls behind.
C15_LaggedSessionStaysActive ==
    \A s \in Sessions :
        /\ phase[s] # "closed"
        /\ sendpc[s] \notin {"done", "cancelled"}
        /\ pc[s] \notin {"done", "cancelled"}

\* The frames of SocketFrames that are a click, input or change message, with
\* the message each spells.
WellFormed ==
    { << TextFrame(JObject([type |-> JString("click"), id |-> JString("b1")])),
         Click("b1") >>,
      << TextFrame(JObject([type |-> JString("click"), id |-> JString("b1"),
                            extra |-> JBool(TRUE)])),
         Click("b1") >>,
      << TextFrame(JObject([type |-> JString("input"), id |-> JString("b1"),
                            value |-> JString("hi")])),
         InputMsg("b1", "hi") >>,
      << TextFrame(JObject([type |-> JString("change"), id |-> JString("b1"),
                            value |-> JBool(TRUE)])),
         Change("b1", JBool(TRUE)) >> }

\* recv_task accepts exactly the well-formed frames, as the message each
\* spells.
OnlyWellFormedAccepted ==
    \A frame \in SocketFrames :
        IF \E w \in WellFormed : w[1] = frame
        THEN \E w \in WellFormed : w[1] = frame /\ Accepted(frame) = Some(w[2])
        ELSE Accepted(frame) = None

\* A frame that is received without becoming a message changes nothing but
\* the count of frames received: no handler is looked up or called, registry
\* and channel are as they were, and the session is still waiting in
\* recv_task's loop.
DroppedFrameIsNoOp ==
    (frames' = frames + 1 /\ seen' = seen)
       => /\ UNCHANGED << elements, lock, pc, call, vec, ev, hcall, running, phase,
                          sendpc, aborted, rx, out, client, calls, got, nsent,
                          inserted >>
          /\ \E s \in Sessions : pc[s] = "recv" /\ phase[s] = "active"

\* C16: an inbound frame that is not text, or whose text is not a click,
\* input or change message, is dropped: no handler is called, registry and
\* channel do not change and the session stays active; the well-formed
\* frames around it are dispatched as ever, each click for "b1" counted once.
C16_MalformedFrameDropped ==
    /\ [](OnlyWellFormedAccepted)
    /\ [][DroppedFrameIsNoOp]_vars
    /\ [](/\ calls["count"] = Clicks("b1") - Cardinality(Dispatching("b1"))
          /\ BagCardinality(seen) <= frames
          /\ \A s \in DispatchSessions : pc[s] \notin {"done", "cancelled", "closed"})

\* C16's case: of three frames received one was dropped and two were clicks
\* for "b1"; both clicks have been counted and the session is active.
C16_Witness ==
    /\ frames = 3
    /\ seen = SetToBag({Click("b1")}) (+) SetToBag({Click("b1")})
    /\ calls["count"] = 2
    /\ pc["s1"] = "recv"
    /\ phase["s1"] = "active"

\* The init messages written to the client of session s.
Inits(s) == {i \in 1 .. Len(client[s]) : client[s][i].type = "init"}

\* Session s has got past the write of init: it has subscribed, spawned a
\* task, received a frame, or closed after being active.
PastInit(s) ==
    \/ rx[s].live
    \/ sendpc[s] # "new"
    \/ pc[s] \notin {"new", "get_lock", "get_clone", "send_init", "closed"}
    \/ ev[s] # NoFrame \/ hcall[s] # NoHCall \/ running[s] # NoHandler
    \/ out[s] # NoMsg
    \/ phase[s] = "active"

\* C17: a session writes init once, as the first message its client gets:
\* never a second init, no update before it, and no subscription, task or
\* dispatch of an inbound event until it has been written.
C17_OneInitFirst ==
    \A s \in Sessions :
        /\ Cardinality(Inits(s)) <= 1
        /\ client[s] # << >> => Inits(s) = {1}
        /\ PastInit(s) => Inits(s) = {1}
        /\ pc[s] = "subscribe" => Inits(s) = {1} /\ ~rx[s].live /\ sendpc[s] = "new"

\* C17's case: a session has written init and then an update, and has
\* dispatched a click in between.
C17_Witness ==
    \E s \in Sessions :
        /\ Len(client[s]) = 2
        /\ client[s][1].type = "init"
        /\ client[s][2].type = "update"
        /\ calls["set_status"] >= 1
        /\ phase[s] = "active"

\* What the client shows after the first n messages written to it: init
\* replaces the whole view, an update replaces the element of its id.
RECURSIVE ViewAfter(_, _)
ViewAfter(msgs, n) ==
    IF n = 0 THEN EmptyMap
    ELSE IF msgs[n].type = "init"
    THEN [k \in {ElementId(e) : e \in BagToSet(msgs[n].elements)} |->
             CHOOSE e \in BagToSet(msgs[n].elements) : ElementId(e) = k]
    ELSE Insert(ViewAfter(msgs, n - 1), msgs[n].id, msgs[n].element)

View(s) == ViewAfter(client[s], Len(client[s]))

\* Registry mutations have stopped and everything published has been
\* delivered: no thread is inside a dispatch or an AppState call, and session
\* s is active with a receiver that never overran and has nothing unread or
\* unwritten.
Settled(s) ==
    /\ \A t \in Threads : pc[t] \in {"new", "idle", "recv", "done", "cancelled", "closed"}
    /\ phase[s] = "active"
    /\ pc[s] = "recv" /\ sendpc[s] = "recv"
    /\ rx[s].live /\ ~rx[s].lagged
    /\ rx[s].queue = << >> /\ out[s] = NoMsg

\* C18 as stated: once mutations have stopped and a session that stayed
\* active and never overran has been sent everything in its queue, its
\* client shows, for every identifier, the registry's current element.
C18_ViewConverges ==
    \A s \in Sessions :
        Settled(s) =>
            \A k \in DOMAIN elements :
                k \in DOMAIN View(s) /\ View(s)[k] = elements[k]

\* One task of session s has finished while websocket() is still in select!.
HalfOpen(s) ==
    phase[s] = "active" /\ (sendpc[s] = "done" \/ pc[s] = "done")

\* websocket() has returned and neither task of session s is running.
FullyClosed(s) ==
    /\ phase[s] = "closed"
    /\ sendpc[s] \in {"done", "cancelled"}
    /\ pc[s] \in {"done", "cancelled"}
    /\ ~rx[s].live

\* C19: when one direction of an active session has ended (the inbound
\* stream ends or fails, an outbound write fails), the other direction is
\* cancelled and the session is closed: a session with one task finished
\* always reaches the state in which websocket() has returned and neither
\* task runs, and stays in it.
C19_NoHalfOpenSession ==
    /\ \A s \in Sessions : HalfOpen(s) ~> FullyClosed(s)
    /\ \A s \in Sessions : [](FullyClosed(s) => [] FullyClosed(s))

\* C19's case: a write to one client failed while its recv_task was inside a
\* handler's update_element call; websocket() has returned and aborted the
\* task, which is still running.
C19_Witness ==
    \E s \in Sessions :
        /\ phase[s] = "closed"
        /\ sendpc[s] = "done"
        /\ aborted[s]
        /\ running[s] = "set_status" /\ pc[s] = "update_lock"

\* The step is an error on session s: a frame that does not decode is
\* dropped, a dispatch finds no handler, a write or the inbound stream fails,
\* or websocket() closes the session after one of these.
DecodeError(s) ==
    pc[s] = "recv" /\ ~aborted[s] /\ pc' = pc /\ frames' = frames + 1
DispatchMismatch(s) ==
    pc[s] \in {"click_lookup", "input_lookup", "change_lookup"} /\ pc'[s] = "recv"
TransportError(s) ==
    \/ pc[s] = "send_init" /\ pc'[s] = "closed"
    \/ sendpc[s] = "send" /\ sendpc'[s] = "done"
    \/ pc[s] = "recv" /\ pc'[s] \in {"done", "cancelled"}
    \/ phase[s] = "active" /\ phase'[s] = "closed"

\* What session t holds of its connection and of the channel.
SessionState(t) ==
    << phase[t], pc[t], sendpc[t], aborted[t], rx[t], out[t], client[t] >>

ErrorIsContained ==
    \A s \in Sessions :
        (DecodeError(s) \/ DispatchMismatch(s) \/ TransportError(s))
           => /\ elements' = elements
              /\ nsent' = nsent
              /\ \A t \in Sessions \ {s} : SessionState(t)' = SessionState(t)

\* A session closes, and its tasks end, on its own socket or receiver only.
ClosesOnOwnFault ==
    \A t \in Sessions :
        /\ (phase[t] # "closed" /\ phase'[t] = "closed")
              => pc[t] \in {"send_init", "done"} \/ sendpc[t] = "done"
        /\ (sendpc[t] # "done" /\ sendpc'[t] = "done")
              => sendpc[t] = "send" \/ rx[t].lagged
        /\ (pc[t] # "done" /\ pc'[t] = "done") => pc[t] = "recv"

\* C20: a frame that does not decode, a dispatch that finds no handler and a
\* failure of the socket of one session change neither the registry nor any
\* other session: no other session is closed by it, and a subscribed session
\* whose receiver has not lagged holds one copy of every update sent since it
\* subscribed, whatever has happened to the other sessions.
C20_ErrorsStayInSession ==
    /\ [][ErrorIsContained /\ ClosesOnOwnFault]_vars
    /\ [](\A t \in Sessions :
            (rx[t].live /\ ~rx[t].lagged)
               => \A n \in SentSince(t) : Copies(t, n) = 1)

\* C20's case: a write to one client failed and its session is closed; it
\* never got the last update, which has been written to the other client,
\* whose session is active.
C20_Witness ==
    \E s \in Sessions, t \in Sessions :
        /\ phase[s] = "closed" /\ sendpc[s] = "done" /\ pc[s] = "cancelled"
        /\ phase[t] = "active"
        /\ nsent >= 2
        /\ Copies(s, nsent) = 0
        /\ \E i \in 1..Len(client[t]) :
              client[t][i].type = "update" /\ client[t][i].n = nsent

\* Thread t takes a step of the named positions of its code.
StepAt(t, positions) ==
    pc[t] \in positions /\ (pc'[t] # pc[t] \/ vec'[t] # vec[t])

\* The step leaves the channel, the receivers and the sockets as they are.
BusUntouched ==
    rx' = rx /\ nsent' = nsent /\ out' = out /\ client' = client

\* A live receiver's queue holds a message it did not hold before.
Enqueued(s) ==
    /\ rx[s].live /\ rx'[s].live
    /\ \E i \in 1..Len(rx'[s].queue) :
          \A j \in 1..Len(rx[s].queue) : rx[s].queue[j] # rx'[s].queue[i]

OnlyUpdatePublishes ==
    /\ \A t \in Threads :
          StepAt(t, {"add_lock", "add_insert",
                     "get_lock", "get_clone", "get_return",
                     "click_lock", "click_lookup", "input_lock", "input_lookup",
                     "change_lock", "change_lookup",
                     "update_lock", "update_insert"})
             => BusUntouched
    /\ (nsent' # nsent \/ \E s \in Sessions : Enqueued(s))
          => \E t \in Threads : StepAt(t, {"update_send"})

\* C21: add_element publishes nothing: its steps leave every receiver's
\* queue, the count of sends and what the clients were sent unchanged, and so
\* do the steps of get_all_elements and of the handler lookups; a message
\* enters a queue only in update_element's send.
C21_AddPublishesNothing == [][OnlyUpdatePublishes]_vars

\* C21's case: a handler's add_element has replaced the status element and
\* returned while both sessions are subscribed; nothing was ever sent.
C21_Witness ==
    /\ elements["status"] = Text("status", "added")
    /\ calls["add_status"] > 0
    /\ nsent = 0
    /\ \A s \in Sessions :
          /\ rx[s].live /\ rx[s].queue = << >>
          /\ pc[s] = "recv"
          /\ Len(client[s]) = 1

\* The element the latest returned add_element or update_element call of the
\* application put under key k, or the one main() registered.
Current(k) ==
    IF \E i \in Applied : appcalls[i].id = k
    THEN appcalls[LastWrite(k)].element
    ELSE AddAll(EmptyMap, ClickElements)[k]

\* The click handler an element carries, if it is a Button with one.
ClickHandlerOf(element) ==
    IF element.kind = "button" THEN element.on_click ELSE NoHandler

ReplacedHandlerGone ==
    \A s \in ReplaceSessions :
        /\ (pc[s] = "click_lookup" /\ pc'[s] # pc[s])
              => /\ hcall'[s].h = ClickHandlerOf(Current(ev[s].id))
                 /\ hcall'[s].h = NoHandler => (pc'[s] = "recv" /\ calls' = calls)
        /\ (pc[s] = "invoke" /\ pc'[s] # pc[s])
              => calls' = [calls EXCEPT ![hcall[s].h] = @ + 1]
        /\ calls' # calls => pc[s] = "invoke"

\* C22: replacing the element under an identifier replaces its handler: the
\* lookup of a click takes the handler of the element that the latest
\* returned add_element or update_element call stored under the identifier,
\* that handler and no other is then called, and nothing is called when that
\* element has no handler or is not a Button.
C22_ReplacedHandlerGone ==
    /\ [][ReplacedHandlerGone]_vars
    /\ [](elements["b1"] = Current("b1") \/ pc[App] \in {"add_insert", "update_insert"})

\* C22's case: "b1" was clicked and its first handler called, add_element
\* then replaced the Button by one with another handler, and the next click
\* called the new handler only.
C22_Witness ==
    /\ Len(appcalls) = 1
    /\ appcalls[1] = [op |-> "add", id |-> "b1",
                      element |-> Button("b1", "New", "recount")]
    /\ pc[App] = "idle"
    /\ calls["count"] = 1 /\ calls["recount"] = 1
    /\ pc["s1"] = "recv"

TasksGone(s) ==
    sendpc[s] \in {"new", "done", "cancelled"}
    /\ pc[s] \in {"closed", "done", "cancelled"}

ClosedTakesNothing ==
    \A s \in Sessions :
        phase[s] = "closed" =>
           /\ phase'[s] = "closed"
           /\ client'[s] # client[s] =>
                 /\ sendpc[s] = "send_aborted" /\ sendpc'[s] = "recv_aborted"
                 /\ out[s].type = "update"
                 /\ client'[s] = Append(client[s], out[s])
           /\ out'[s] \in {out[s], NoMsg}
           /\ rx'[s].live => rx[s].live
           /\ TasksGone(s) => SessionState(s)' = SessionState(s)

\* select! finds both tasks finished: the abort does nothing.
CloseOfFinishedTasks ==
    \A s \in Sessions :
        (phase[s] = "active" /\ phase'[s] = "closed"
           /\ pc[s] = "done" /\ sendpc[s] = "done")
           => /\ pc'[s] = "done" /\ sendpc'[s] = "done" /\ ~aborted'[s]
              /\ rx' = rx /\ out' = out /\ client' = client

StartServerReturned == pc[App] = "returned"

\* No connection was ever served.
NothingServed ==
    /\ \A s \in Sessions : pc[s] = "new" /\ phase[s] = "new" /\ client[s] = << >>
    /\ frames = 0

\* The address start_server was called with can be bound: it is a socket
\* address whose port is free.
CanBeBound ==
    "port" \in DOMAIN call[App].addr /\ call[App].addr.port \notin call[App].in_use

BindDecides ==
    pc[App] = "bind" /\ pc'[App] # "bind" =>
        IF CanBeBound
        THEN pc'[App] = "serve"
        ELSE /\ StartServerReturned'
             /\ ~call'[App].result.ok
             /\ call'[App].result.e \in {"InvalidInput", "AddrInUse"}

\* C24: when the address cannot be bound start_server returns bind's error
\* to its caller and no connection is served; start_server returns before
\* serving only in this way, and connections are accepted only after a bind
\* that succeeded.
C24_BindErrorReachesCaller ==
    /\ [][BindDecides]_vars
    /\ [](StartServerReturned =>
            /\ ~CanBeBound
            /\ call[App].result =
                  Err(IF "port" \in DOMAIN call[App].addr
                      THEN "AddrInUse" ELSE "InvalidInput")
            /\ NothingServed)
    /\ [](~NothingServed => (pc[App] = "serve" /\ CanBeBound))

\* C24's case: the port was taken, and start_server has returned AddrInUse.
C24_Witness ==
    /\ StartServerReturned
    /\ call[App].addr = SocketAddr("127.0.0.1", 3000)
    /\ 3000 \in call[App].in_use
    /\ call[App].result = Err("AddrInUse")

\* The identifiers of the elements a get_all_elements call would return: the
\* ids the values of the map carry.
SnapshotIds(m) == {ElementId(m[k]) : k \in DOMAIN m}

\* No step removes a key, and the snapshot never gets shorter.
KeysKept ==
    /\ DOMAIN elements \subseteq DOMAIN elements'
    /\ inserted \subseteq inserted'

\* C25 as stated: no step removes a key of the registry, so the set of
\* identifiers get_all_elements returns only grows.
C25_IdentifiersOnlyGrow ==
    [][KeysKept /\ SnapshotIds(elements) \subseteq SnapshotIds(elements')]_vars

\* The part of C25 that holds: keys are never removed.
C25_KeysOnlyGrow == [][KeysKept]_vars

\* The value of an element lies within the bounds the element carries.
InRange(element) ==
    CASE element.kind = "slider" ->
           element.min <= element.value /\ element.value <= element.max
      [] element.kind = "number" ->
           /\ element.min # None => element.min[1] <= element.value
           /\ element.max # None => element.value <= element.max[1]
      [] OTHER -> TRUE

\* C26 as stated: every Slider in the registry has min <= value <= max and
\* every NumberInput respects the bounds it carries.
C26_ValuesWithinBounds ==
    \A k \in DOMAIN elements : InRange(elements[k])

\* The last message in the queue of a receiver.
Newest(r) == r.queue[Len(r.queue)]

\* A handler ends only by returning, after its update_element call has
\* written the registry and sent the update to every receiver there is; an
\* aborted recv_task is dropped only at receiver.next().
HandlerRunsToItsEnd ==
    \A s \in Sessions :
        /\ (running[s] = "set_status" /\ running'[s] # running[s])
              => /\ pc[s] = "update_send" /\ pc'[s] = "recv"
                 /\ elements'["status"] = Text("status", "clicked")
                 /\ nsent' = nsent + 1
                 /\ \A t \in Sessions :
                       rx[t].live =>
                          Newest(rx'[t]) =
                             UpdateMsg("status", Text("status", "clicked"), nsent + 1)
        /\ (pc'[s] = "cancelled" /\ pc[s] # "cancelled")
              => (pc[s] = "recv" /\ running[s] = NoHandler)

\* C27: a handler that has started is never cancelled: when the session's
\* send_task has ended and select! has aborted recv_task while it is inside a
\* handler, the handler still runs to its end, and its update_element call
\* writes the registry and sends the update to the other sessions' receivers
\* before recv_task is dropped.
C27_HandlerNeverCancelled ==
    /\ [][HandlerRunsToItsEnd]_vars
    /\ \A s \in Sessions :
          (aborted[s] /\ running[s] # NoHandler) ~> (running[s] = NoHandler)

\* C27's case: a write to the client of one session failed and its
\* recv_task was aborted inside the handler, which has since written the
\* registry and is about to send the update; the other session is subscribed.
C27_Witness ==
    \E s \in Sessions, t \in Sessions :
        /\ sendpc[s] = "done" /\ phase[s] = "closed" /\ aborted[s]
        /\ running[s] = "set_status" /\ pc[s] = "update_send"
        /\ elements["status"] = Text("status", "clicked")
        /\ t # s /\ phase[t] = "active" /\ rx[t].live

\* The update messages session s holds: written, being written and queued.
Held(s) ==
    {client[s][i] : i \in {j \in 1..Len(client[s]) : client[s][j].type = "update"}}
    \cup (IF out[s].type = "update" THEN {out[s]} ELSE {})
    \cup {rx[s].queue[i] : i \in 1..Len(rx[s].queue)}

\* No update_element call is between its insert and its send.
NoUpdateInProgress ==
    \A t \in Threads : pc[t] \notin {"update_lock", "update_insert", "update_send"}

\* C28 as stated: when the concurrent update_element calls have returned,
\* the last update message published for an identifier carries the element
\* the registry holds for it.
C28_LastMessageIsRegistry ==
    NoUpdateInProgress =>
        \A s \in Sessions : \A m \in Held(s) :
            (\A later \in Held(s) : later.id = m.id => later.n <= m.n)
            /\ m.n = nsent
               => m.element = elements[m.id]

\* Session s is looking up the handler of a frame.
InLookup(s) ==
    pc[s] \in {"click_lock", "click_lookup", "input_lock", "input_lookup",
               "change_lock", "change_lookup"}

\* Session s is calling a handler, or is about to with the handler in hand.
InHandler(s) == pc[s] = "invoke" \/ running[s] # NoHandler

\* A session takes a frame only when the dispatch of the one before is over,
\* and the handler it finds is called with the value of that frame.
FrameAfterFrame ==
    \A s \in Sessions :
        /\ (ev'[s] # ev[s] /\ ev'[s] # NoFrame)
              => /\ pc[s] = "recv" /\ ev[s] = NoFrame
                 /\ ~InHandler(s) /\ call[s] = NoCall /\ hcall[s] = NoHCall
        /\ (pc[s] = "input_lookup" /\ pc'[s] = "invoke")
              => hcall'[s].arg = JString(ev[s].value)

\* C29: within one session events are dispatched one at a time, in the
\* order of their frames: while a session looks up the handler of a frame no
\* handler of that session is running or pending, a frame is taken only when
\* the dispatch of the one before is over, and the handler gets the value of
\* the frame just taken.
C29_OneDispatchPerSession ==
    /\ [][FrameAfterFrame]_vars
    /\ [](\A s \in Sessions :
            /\ InLookup(s) =>
                  (~InHandler(s) /\ call[s] = NoCall /\ hcall[s] = NoHCall
                     /\ ev[s] # NoFrame)
            /\ InHandler(s) => ev[s] = NoFrame)

\* C29's case: the handlers of the two sessions run at the same time, each
\* inside its update_element call with the text its own client typed.
C29_Witness ==
    /\ running["s1"] = "echo" /\ running["s2"] = "echo"
    /\ call["s1"].element = Text("echo", "a")
    /\ call["s2"].element = Text("echo", "b")
    /\ pc["s1"] = "update_send" /\ pc["s2"] = "update_lock"

\* The serial numbers of the update messages of a sequence of messages, in
\* the order of the sequence.
RECURSIVE Serials(_)
Serials(msgs) ==
    IF msgs = << >> THEN << >>
    ELSE IF Head(msgs).type = "update"
         THEN << Head(msgs).n >> \o Serials(Tail(msgs))
         ELSE Serials(Tail(msgs))

\* The updates session s has forwarded, is forwarding and has still to read,
\* in that order.
Forwarding(s) == Serials(client[s] \o << out[s] >> \o rx[s].queue)

Increasing(ns) == \A i \in 1..Len(ns), j \in 1..Len(ns) : i < j => ns[i] < ns[j]

\* C30: every session forwards the update messages in the order update_tx
\* sent them and none twice: the serial numbers of the updates written to a
\* client, followed by those its send_task still holds, increase strictly,
\* and all of them were sent after the session subscribed.
C30_ForwardedInPublishOrder ==
    \A s \in Sessions :
        /\ Increasing(Forwarding(s))
        /\ \A i \in 1..Len(Forwarding(s)) : Forwarding(s)[i] \in SentSince(s)

\* C30's case: one client was sent the first two updates in their order;
\* the other subscribed after the first was sent and got the second only.
C30_Witness ==
    \E s \in Sessions, t \in Sessions :
        /\ Serials(client[s]) = << 1, 2 >>
        /\ since[t] = 1
        /\ Serials(client[t]) = << 2 >>

\* The identifiers the handlers of examples/all_elements.rs write with
\* update_element.
HandlerTargets == {"status", "echo"}

\* A step of a dispatch outside the AppState calls a handler makes: the
\* lookup under the lock and the call of the handler.
DispatchStep(s) ==
    StepAt(s, {"click_lock", "click_lookup", "input_lock", "input_lookup",
               "change_lock", "change_lookup", "invoke"})

DispatchWritesNothing ==
    /\ \A s \in Sessions :
          DispatchStep(s) =>
             /\ elements' = elements /\ inserted' = inserted
             /\ rx' = rx /\ nsent' = nsent
    /\ (elements' # elements \/ nsent' # nsent)
          => \E s \in Sessions :
                /\ running[s] \in {"set_status", "echo"}
                /\ StepAt(s, {"update_insert", "update_send"})
                /\ call[s].id \in HandlerTargets

\* C31: dispatching an event changes neither the registry nor the channel
\* by itself: the lookup and the call of the handler leave both as they are,
\* the registry and the queues change only inside an update_element call a
\* handler makes, and every element no handler updates, the Input, Checkbox,
\* Slider, Radio and NumberInput the events are aimed at included, stays as
\* it was registered, value and checked field too.
C31_DispatchWritesNothing ==
    /\ [][DispatchWritesNothing]_vars
    /\ [](\A k \in DOMAIN elements \ HandlerTargets :
            elements[k] = AddAll(EmptyMap, AllElements)[k])
    /\ [](DOMAIN elements = DOMAIN AddAll(EmptyMap, AllElements))

\* C31's case: the subscribed client ticked the checkbox and moved the
\* slider; both handlers were called with the new values, and the registry
\* still holds the elements as registered and nothing was sent.
C31_Witness ==
    /\ seen = SetToBag({Change("terms-checkbox", JBool(TRUE)),
                        Change("volume-slider", JNumber(42))})
    /\ pc["s1"] = "recv" /\ rx["s1"].live /\ rx["s1"].queue = << >>
    /\ got["on_checkbox"] = Some(JBool(TRUE))
    /\ got["on_slider"] = Some(JNumber(42))
    /\ elements = AddAll(EmptyMap, AllElements)
    /\ nsent = 0

\* websocket() of session s has returned from the failed write of init.
InitFailed(s) == pc[s] = "closed"

\* What session s has done with the channel, the inbound stream and the
\* handlers.
Activity(s) ==
    << rx[s], sendpc[s], out[s], client[s], ev[s], hcall[s], running[s],
       call[s], aborted[s], since[s] >>

FailedInitEndsSession ==
    \A s \in Sessions :
        /\ (pc[s] = "send_init" /\ pc'[s] # pc[s] /\ client'[s] = client[s])
              => /\ InitFailed(s)' /\ phase'[s] = "closed"
                 /\ elements' = elements /\ inserted' = inserted
                 /\ rx' = rx /\ nsent' = nsent
                 /\ calls' = calls /\ got' = got /\ frames' = frames
        /\ InitFailed(s)
              => /\ InitFailed(s)' /\ phase'[s] = "closed"
                 /\ Activity(s)' = Activity(s)

\* C32: when the write of the init message fails the session ends at once:
\* that step changes neither the registry nor the channel nor any handler's
\* record, and the session, closed for good, has no receiver, has no task,
\* takes no frame and calls no handler.
C32_FailedInitEndsSession ==
    /\ [][FailedInitEndsSession]_vars
    /\ [](\A s \in Sessions :
            InitFailed(s) =>
               /\ phase[s] = "closed"
               /\ ~rx[s].live /\ rx[s].queue = << >> /\ since[s] = 0
               /\ sendpc[s] = "new" /\ out[s] = NoMsg /\ client[s] = << >>
               /\ ev[s] = NoFrame /\ hcall[s] = NoHCall
               /\ running[s] = NoHandler /\ call[s] = NoCall)

\* C32's case: the init of one session could not be written; the other
\* session went on, its click was dispatched and the update published, none
\* of which reached the failed session.
C32_Witness ==
    \E s \in Sessions, t \in Sessions :
        /\ InitFailed(s) /\ client[s] = << >> /\ ~rx[s].live
        /\ phase[t] = "active"
        /\ calls["set_status"] = 1 /\ nsent = 1
        /\ elements["status"] = Text("status", "clicked")

====
